---- MODULE Spec2Model ----
(***************************************************************************)
(* Verification model of the assignment3 lamp shade slicer                 *)
(* (d-rep-lab/csc696c): parameter validation, layer generation, the spiral *)
(* toolpath and the G-code writer.                                         *)
(*                                                                         *)
(* Number systems used by the model:                                       *)
(*   - the layer loop of generate_lamp_shade_layers accumulates a Python   *)
(*     float; that accumulator is modelled bit-exactly as an IEEE-754      *)
(*     binary64 value (53-bit significand, round-to-nearest-even);         *)
(*   - parameters and radii are fixed-point integers in units of 1/100 mm, *)
(*     toolpath coordinates in 1/1000 mm and filament in 1/100000 mm.      *)
(***************************************************************************)
EXTENDS Integers, Sequences, FiniteSets, TLC

VARIABLES
    \* ---- generate_lamp_shade_layers (part1_geometry.py) ----
    lg_params,      \* [total_height, layer_height]: decimal literals <<num, den>>
    lg_pc,          \* "start" | "loop" | "done"
    lg_z,           \* the float accumulator z (binary64), or NoFloat
    lg_layers,      \* list of layer dicts appended so far
    \* ---- a single call of a pure function ----
    call,           \* [fn |-> name, ...arguments], or NoCall
    ret,            \* what the call returned or raised, or NoRet
    \* ---- the entry points and compare_profiles ----
    drv_pc,         \* where the running entry point is
    drv_arg,        \* the profile_type argument of test_single_profile, or None
    drv_params,     \* the entry point's local params, or None
    drv_i,          \* index of the profile loop of generate_all_profiles
    drv_results,    \* profile types stored in results, in order
    drv_validated,  \* parameter values validate() has returned for
    drv_generated,  \* the calls of generate_lamp_shade_layers made so far
    cmp,            \* the frame of compare_profiles and what it printed, or None
    \* ---- generate_spiral_lamp_shade_toolpath (part3_gcode.py) ----
    sp_pc,          \* "idle" | "ready" | "done"
    sp_path,        \* the toolpath returned by the last call
    \* ---- write_lamp_shade_gcode (part3_gcode.py) ----
    wg_pc,          \* "idle" | "header" | "loop" | "footer" | "returned" | "raised"
    wg_in,          \* the arguments [spiral_path, params]
    wg_i,           \* index of the toolpath point the loop is at
    wg_prev_z,      \* z of the previous toolpath point
    wg_lines,       \* gcode_lines
    wg_total,       \* total_distance accumulated by the loop
    wg_file,        \* <<the text written to output_file>>, or None
    wg_out          \* the stats returned or the error raised, or None

lgVars == <<lg_params, lg_pc, lg_z, lg_layers>>

callVars == <<call, ret>>

drvVars == <<drv_pc, drv_arg, drv_params, drv_i, drv_results, drv_validated, drv_generated, cmp>>

spVars == <<sp_pc, sp_path>>

wgVars == <<wg_pc, wg_in, wg_i, wg_prev_z, wg_lines, wg_total, wg_file, wg_out>>

vars == <<lgVars, callVars, drvVars, spVars, wgVars>>

\* Python's None; an Optional[float] field holds None or <<value>>
None == <<>>

NoCall == [fn |-> "none"]

NoRet == [status |-> "pending"]

CallIdle == call = NoCall /\ ret = NoRet

DrvIdle ==
    /\ drv_pc = "idle"
    /\ drv_arg = None
    /\ drv_params = None
    /\ drv_i = 0
    /\ drv_results = <<>>
    /\ drv_validated = {}
    /\ drv_generated = {}
    /\ cmp = None

SpIdle == sp_pc = "idle" /\ sp_path = <<>>

WgIdle ==
    /\ wg_pc = "idle"
    /\ wg_in = None
    /\ wg_i = 0
    /\ wg_prev_z = 0
    /\ wg_lines = <<>>
    /\ wg_total = 0
    /\ wg_file = None
    /\ wg_out = None

(***************************************************************************)
(* IEEE-754 binary64 arithmetic on positive finite values.                 *)
(* A value is [m |-> 53 bits, most significant first, m[1] = 1, e |-> k]   *)
(* and denotes (m read as a binary integer) * 2^e.                         *)
(***************************************************************************)
DoublePrecision == 53

NoFloat == [m |-> <<>>, e |-> 0]

Zeros(k) == [i \in 1..k |-> 0]

RECURSIVE BinOf(_)
\* binary digits of a positive integer, most significant first
BinOf(n) ==
    IF n <= 1 THEN <<n>> ELSE Append(BinOf(n \div 2), n % 2)

\* the next k binary digits of r/d (0 <= r < d), followed by the remainder left
FracBits(r, d, k) ==
    LET Digits[a \in Nat \X Nat] ==
            IF a[2] = 0 THEN <<a[1]>>
            ELSE IF 2 * a[1] >= d THEN <<1>> \o Digits[<<2 * a[1] - d, a[2] - 1>>]
            ELSE <<0>> \o Digits[<<2 * a[1], a[2] - 1>>]
    IN  Digits[<<r, k>>]

\* bits + 1; the result is one bit longer when every bit was 1
IncBits(bits) ==
    LET n  == Len(bits)
        zs == {i \in 1..n : bits[i] = 0}
    IN  IF zs = {} THEN <<1>> \o Zeros(n)
        ELSE LET j == CHOOSE i \in zs : \A k \in zs : k <= i
             IN  [i \in 1..n |-> IF i < j THEN bits[i] ELSE IF i = j THEN 1 ELSE 0]

RECURSIVE AddFrom(_, _, _, _)
\* ripple-carry sum of the low i bits of two equally long bit strings
AddFrom(A, B, i, carry) ==
    IF i = 0 THEN <<carry>>
    ELSE LET s == A[i] + B[i] + carry
         IN  IF s >= 2 THEN Append(AddFrom(A, B, i - 1, 1), s - 2)
             ELSE Append(AddFrom(A, B, i - 1, 0), s)

RECURSIVE StripZeros(_)
StripZeros(bits) ==
    IF bits # <<>> /\ bits[1] = 0 THEN StripZeros(Tail(bits)) ELSE bits

AnyOne(bits) == \E i \in 1..Len(bits) : bits[i] = 1

\* Round an exact positive value (bits * 2^e, bits[1] = 1, `sticky` set when
\* non-zero digits were cut off below bits) to 53 bits, ties to even.
RoundBits(bits, e, sticky) ==
    LET L == Len(bits)
    IN  IF L <= DoublePrecision
        THEN [m |-> bits \o Zeros(DoublePrecision - L), e |-> e - (DoublePrecision - L)]
        ELSE LET q    == SubSeq(bits, 1, DoublePrecision)
                 rest == SubSeq(bits, DoublePrecision + 1, L)
                 g    == rest[1]
                 st   == sticky \/ AnyOne(Tail(rest))
                 up   == g = 1 /\ (st \/ q[DoublePrecision] = 1)
                 q2   == IF up THEN IncBits(q) ELSE q
                 e2   == e + (L - DoublePrecision)
             IN  IF Len(q2) > DoublePrecision
                 THEN [m |-> SubSeq(q2, 1, DoublePrecision), e |-> e2 + 1]
                 ELSE [m |-> q2, e |-> e2]

\* RoundBits on the value of its arguments
RoundNearestEven(bits, e, sticky) ==
    CHOOSE r \in {RoundBits(v[1], v[2], v[3]) : v \in {<<bits, e, sticky>>}} : TRUE

RECURSIVE LeadShift(_, _)
\* least s with n * 2^s >= d
LeadShift(n, d) ==
    IF n >= d THEN 0 ELSE 1 + LeadShift(2 * n, d)

RECURSIVE Pow2(_)
Pow2(k) ==
    IF k <= 0 THEN 1 ELSE 2 * Pow2(k - 1)

\* The binary64 value of the decimal literal n/d (n, d > 0), correctly rounded,
\* as the Python parser reads "0.20" or "50.0".
FloatOf(dec) ==
    LET n  == dec[1]
        d  == dec[2]
        s  == LeadShift(n, d)
        n2 == n * Pow2(s)
        ip == BinOf(n2 \div d)
        k  == DoublePrecision + 1 - Len(ip)
        fr == FracBits(n2 % d, d, k)
    IN  RoundNearestEven(ip \o SubSeq(fr, 1, k), -k - s, fr[k + 1] # 0)

\* a + b in binary64
\* the operands as equally long bit strings over the lower exponent
Aligned(a, b) ==
    LET lo == IF a.e <= b.e THEN a.e ELSE b.e
        A0 == a.m \o Zeros(a.e - lo)
        B0 == b.m \o Zeros(b.e - lo)
        L  == IF Len(A0) >= Len(B0) THEN Len(A0) ELSE Len(B0)
    IN  [A |-> Zeros(L - Len(A0)) \o A0, B |-> Zeros(L - Len(B0)) \o B0, lo |-> lo]

FloatAdd(a, b) ==
    CHOOSE r \in {RoundNearestEven(StripZeros(AddFrom(v.A, v.B, Len(v.A), 0)), v.lo, FALSE) :
                      v \in {Aligned(w[1], w[2]) : w \in {<<a, b>>}}} : TRUE

RECURSIVE BitsLess(_, _, _)
\* lexicographic a < b on equally long bit strings, from position i
BitsLess(a, b, i) ==
    IF i > Len(a) THEN FALSE
    ELSE IF a[i] # b[i] THEN a[i] < b[i]
    ELSE BitsLess(a, b, i + 1)

FloatLess(a, b) ==
    \/ a.e < b.e
    \/ a.e = b.e /\ BitsLess(a.m, b.m, 1)

FloatLeq(a, b) == a = b \/ FloatLess(a, b)

BitsToInt(bits) ==
    LET Value[n \in 0..Len(bits)] ==
            IF n = 0 THEN 0 ELSE 2 * Value[n - 1] + bits[n]
    IN  Value[Len(bits)]

(***************************************************************************)
(* Fixed-point helpers.  Lengths are integers in units of 1/100 mm; the    *)
(* normalised height t and the sine are scaled by FracScale.               *)
(***************************************************************************)
FracScale == 10000

Abs(x) == IF x < 0 THEN -x ELSE x

Min(a, b) == IF a <= b THEN a ELSE b

Max(a, b) == IF a >= b THEN a ELSE b

\* x / d rounded to the nearest integer (d > 0)
DivRound(x, d) == (2 * x + d) \div (2 * d)

\* binary search for the integer square root of n in lo..hi
SqrtSearch(n, lo, hi) ==
    LET Search[a \in Nat \X Int] ==
            IF a[1] >= a[2] THEN a[1]
            ELSE IF ((a[1] + a[2] + 1) \div 2) * ((a[1] + a[2] + 1) \div 2) <= n
                 THEN Search[<<(a[1] + a[2] + 1) \div 2, a[2]>>]
                 ELSE Search[<<a[1], (a[1] + a[2] + 1) \div 2 - 1>>]
    IN  Search[<<lo, hi>>]

ISqrt(n) == SqrtSearch(n, 0, 46340)

\* round(sin(d degrees) * FracScale) for d = 0..90 (entry d + 1)
SinTable ==
    <<    0,   175,   349,   523,   698,   872,  1045,  1219,  1392,  1564,
       1736,  1908,  2079,  2250,  2419,  2588,  2756,  2924,  3090,  3256,
       3420,  3584,  3746,  3907,  4067,  4226,  4384,  4540,  4695,  4848,
       5000,  5150,  5299,  5446,  5592,  5736,  5878,  6018,  6157,  6293,
       6428,  6561,  6691,  6820,  6947,  7071,  7193,  7314,  7431,  7547,
       7660,  7771,  7880,  7986,  8090,  8192,  8290,  8387,  8480,  8572,
       8660,  8746,  8829,  8910,  8988,  9063,  9135,  9205,  9272,  9336,
       9397,  9455,  9511,  9563,  9613,  9659,  9703,  9744,  9781,  9816,
       9848,  9877,  9903,  9925,  9945,  9962,  9976,  9986,  9994,  9998,
      10000>>

\* sin of an angle given in 1/100 degree, scaled by FracScale; the quarter-wave
\* table is interpolated linearly between whole degrees
SinCentiDeg(a) ==
    LET r    == a % 36000
        neg  == r >= 18000
        h    == r % 18000
        q    == IF h > 9000 THEN 18000 - h ELSE h
        d    == q \div 100
        f    == q % 100
        lo   == SinTable[d + 1]
        hi   == IF d = 90 THEN lo ELSE SinTable[d + 2]
        v    == lo + DivRound((hi - lo) * f, 100)
    IN  IF neg THEN -v ELSE v

(***************************************************************************)
(* part1_geometry.py: lamp_shade_radius_at_height                          *)
(***************************************************************************)
ProfileTypes == {"linear", "concave", "convex", "sinusoidal"}

\* variant: the guard rail of line 54 without its min(1.0, t)
NormalizedT_no_upper(z, total_height) == Max(0, DivRound(z * FracScale, total_height))

\* t = z / total_height clamped to [0, 1], scaled by FracScale
NormalizedT(z, total_height) ==
    Max(0, Min(FracScale, DivRound(z * FracScale, total_height)))

\* variant: the linear taper runs from top_radius down to base_radius
lamp_shade_radius_at_height_reversed(z, base_radius, top_radius, total_height, profile_type) ==
    LET t    == NormalizedT(z, total_height)
        span == top_radius - base_radius
    IN  CASE profile_type = "concave" ->
               base_radius + DivRound(DivRound(t * t, FracScale) * span, FracScale)
          [] profile_type = "convex" ->
               base_radius + DivRound(ISqrt(t * FracScale) * span, FracScale)
          [] profile_type = "sinusoidal" ->
               LET amplitude == DivRound(base_radius + top_radius, 40)
                   wave      == DivRound(amplitude * SinCentiDeg(DivRound(72 * t, 10)), FracScale)
               IN  base_radius + DivRound(t * span, FracScale) + wave
          [] OTHER ->
               top_radius - DivRound(t * span, FracScale)

\* variant: t * 2.0 for t ** 2.0 in the concave profile
lamp_shade_radius_at_height_doubled(z, base_radius, top_radius, total_height, profile_type) ==
    LET t    == NormalizedT(z, total_height)
        span == top_radius - base_radius
    IN  CASE profile_type = "concave" ->
               base_radius + DivRound(2 * t * span, FracScale)
          [] profile_type = "convex" ->
               base_radius + DivRound(ISqrt(t * FracScale) * span, FracScale)
          [] profile_type = "sinusoidal" ->
               LET amplitude == DivRound(base_radius + top_radius, 40)
                   wave      == DivRound(amplitude * SinCentiDeg(DivRound(72 * t, 10)), FracScale)
               IN  base_radius + DivRound(t * span, FracScale) + wave
          [] OTHER ->
               base_radius + DivRound(t * span, FracScale)

\* total_height # 0: z / 0 raises ZeroDivisionError before anything is computed
lamp_shade_radius_at_height(z, base_radius, top_radius, total_height, profile_type) ==
    LET t    == NormalizedT(z, total_height)
        span == top_radius - base_radius
    IN  CASE profile_type = "linear" ->
               base_radius + DivRound(t * span, FracScale)
          [] profile_type = "concave" ->
               LET t_modified == DivRound(t * t, FracScale)
               IN  base_radius + DivRound(t_modified * span, FracScale)
          [] profile_type = "convex" ->
               LET t_modified == ISqrt(t * FracScale)
               IN  base_radius + DivRound(t_modified * span, FracScale)
          [] profile_type = "sinusoidal" ->
               LET amplitude == DivRound(base_radius + top_radius, 40)
                   wave      == DivRound(amplitude * SinCentiDeg(DivRound(72 * t, 10)), FracScale)
               IN  base_radius + DivRound(t * span, FracScale) + wave
          [] OTHER ->
               base_radius + DivRound(t * span, FracScale)

\* A binary64 value rounded to fixed point (1/100 mm), for use as a height
FloatToCenti(f) ==
    LET k    == DoublePrecision + f.e
        ip   == IF k <= 0 THEN <<>> ELSE SubSeq(f.m, 1, k)
        fr0  == IF k <= 0 THEN Zeros(-k) \o f.m ELSE SubSeq(f.m, k + 1, DoublePrecision)
        fr   == SubSeq(fr0 \o Zeros(20), 1, 20)
    IN  BitsToInt(ip) * 100 + DivRound(BitsToInt(fr) * 100, Pow2(20))

\* The fixed-point value (1/100 mm) of a decimal literal <<num, den>>
Centi(dec) == (dec[1] * 100) \div dec[2]

(***************************************************************************)
(* config.py: PrinterSpecs and LampShadeParams                             *)
(***************************************************************************)
BED_SIZE == <<25000, 21000>>

BED_CENTER == <<10500, 10500>>

MAX_Z == 22000

MAX_OVERHANG_ANGLE == 45

\* LampShadeParams.__init__: the defaults (lengths in 1/100 mm)
LampShadeParams ==
    [ base_radius |-> 3000, top_radius |-> 2500, total_height |-> 5000,
      num_points |-> 64, profile_type |-> "linear", layer_height |-> 20,
      line_width |-> 48, print_speed |-> 1500, travel_speed |-> 6000,
      flow_multiplier |-> 100, nozzle_temp |-> 215, bed_temp |-> 60,
      twist_enabled |-> FALSE, twist_degrees |-> 0, twist_type |-> "linear",
      wave_enabled |-> FALSE, wave_amplitude |-> 0, wave_frequency |-> 6,
      wave_vertical_freq |-> 3,
      z_increment_per_point |-> None ]

(***************************************************************************)
(* part1_geometry.py: twist, wave and one layer's closed perimeter         *)
(***************************************************************************)
\* calculate_twist_angle, in 1/100 degree
calculate_twist_angle(z, params) ==
    IF ~params.twist_enabled THEN 0
    ELSE LET t     == DivRound(z * FracScale, params.total_height)
             total == params.twist_degrees * 100
         IN  CASE params.twist_type = "linear" ->
                    DivRound(t * total, FracScale)
               [] params.twist_type = "accelerating" ->
                    DivRound(DivRound(t * t, FracScale) * total, FracScale)
               [] OTHER ->
                    DivRound((FracScale - DivRound((FracScale - t) * (FracScale - t), FracScale))
                             * total, FracScale)

\* radians (scaled by 100) to 1/100 degree: 180/pi = 57.30
RadToCentiDeg(x) == DivRound(x * 573, 10)

\* calculate_radial_wave: angle in 1/100 degree, z and the result in 1/100 mm
calculate_radial_wave(angle, z, params) ==
    IF ~params.wave_enabled THEN 0
    ELSE LET horizontal_wave == SinCentiDeg(params.wave_frequency * angle)
             vertical_wave   == SinCentiDeg(RadToCentiDeg(params.wave_vertical_freq * z) + 9000)
             combined        == DivRound(horizontal_wave * vertical_wave, FracScale)
         IN  DivRound(params.wave_amplitude * combined, FracScale)

(***************************************************************************)
(* part1_geometry.py: validate_printability                                *)
(* The profile is sampled at z = layer_height, 2*layer_height, ... up to   *)
(* total_height; each consecutive pair is checked in order and the first   *)
(* pair above the limit ends the scan.                                     *)
(***************************************************************************)
\* number of sampled heights
NumSamples(total_height, layer_height) == total_height \div layer_height

\* the heights layer_height, 2 * layer_height, ... the profile is sampled at
SampleHeights(total_height, layer_height) ==
    {i * layer_height : i \in 1..NumSamples(total_height, layer_height)}

\* atan(|dr| / dz) > max_deg, decided on the tangents:
\* |dr| / dz > sin(max) / cos(max)
AngleExceeds(dr, dz, max_deg) ==
    Abs(dr) * SinCentiDeg(max_deg * 100 + 9000) > dz * SinCentiDeg(max_deg * 100)

\* the largest a in lo..hi (1/10 degree) with tan(a) <= dr / dz
AtanSearch(dr, dz, lo, hi) ==
    LET Search[a \in Nat \X Int] ==
            IF a[1] >= a[2] THEN a[1]
            ELSE LET mid == (a[1] + a[2] + 1) \div 2
                 IN  IF SinCentiDeg(mid * 10) * dz <= dr * SinCentiDeg(mid * 10 + 9000)
                     THEN Search[<<mid, a[2]>>]
                     ELSE Search[<<a[1], mid - 1>>]
    IN  Search[<<lo, hi>>]

\* atan(|dr| / dz) in 1/10 degree, as the message prints it
AngleDeciDeg(dr, dz) == AtanSearch(Abs(dr), dz, 0, 900)

Valid == <<TRUE, "Valid">>

\* variant: the signed dr is compared, so only outward growth can fail
validate_printability_signed(profile_func, total_height, layer_height, max_overhang_angle) ==
    LET n       == NumSamples(total_height, layer_height)
        dr(i)   == profile_func[i * layer_height] - profile_func[(i - 1) * layer_height]
        bad     == {i \in 2..n : dr(i) * SinCentiDeg(max_overhang_angle * 100 + 9000)
                                   > layer_height * SinCentiDeg(max_overhang_angle * 100)}
    IN  IF bad = {} THEN Valid
        ELSE LET i == CHOOSE k \in bad : \A j \in bad : k <= j
             IN  <<FALSE, [text |-> "Overhang angle exceeds maximum",
                           angle |-> AngleDeciDeg(dr(i), layer_height),
                           max |-> max_overhang_angle,
                           z |-> i * layer_height]>>

\* variant: dz is taken as 1 mm instead of layer_height
validate_printability_unit_dz(profile_func, total_height, layer_height, max_overhang_angle) ==
    LET n       == NumSamples(total_height, layer_height)
        dr(i)   == profile_func[i * layer_height] - profile_func[(i - 1) * layer_height]
        bad     == {i \in 2..n : AngleExceeds(dr(i), 100, max_overhang_angle)}
    IN  IF bad = {} THEN Valid
        ELSE LET i == CHOOSE k \in bad : \A j \in bad : k <= j
             IN  <<FALSE, [text |-> "Overhang angle exceeds maximum",
                           angle |-> AngleDeciDeg(dr(i), 100),
                           max |-> max_overhang_angle,
                           z |-> i * layer_height]>>

validate_printability(profile_func, total_height, layer_height, max_overhang_angle) ==
    LET n       == NumSamples(total_height, layer_height)
        dr(i)   == profile_func[i * layer_height] - profile_func[(i - 1) * layer_height]
        bad     == {i \in 2..n : AngleExceeds(dr(i), layer_height, max_overhang_angle)}
    IN  IF bad = {} THEN Valid
        ELSE LET i == CHOOSE k \in bad : \A j \in bad : k <= j
             IN  <<FALSE, [text |-> "Overhang angle exceeds maximum",
                           angle |-> AngleDeciDeg(dr(i), layer_height),
                           max |-> max_overhang_angle,
                           z |-> i * layer_height]>>

(***************************************************************************)
(* config.py: LampShadeParams.validate                                     *)
(***************************************************************************)
Returned == [status |-> "returned"]

Raise(kind, msg) == [status |-> "raised", kind |-> kind, msg |-> msg]

\* lines 64-72: basic validation
BasicChecks(self) ==
    IF self.base_radius <= 0 \/ self.top_radius <= 0
    THEN Raise("ValueError", <<"Radii must be positive">>)
    ELSE IF self.total_height <= 0
    THEN Raise("ValueError", <<"Height must be positive">>)
    ELSE IF self.layer_height <= 0 \/ self.layer_height > 30
    THEN Raise("ValueError", <<"Layer height must be in range (0, 0.3]">>)
    ELSE IF self.num_points < 12
    THEN Raise("ValueError", <<"Need at least 12 points for smooth circle">>)
    ELSE Returned

\* lines 74-86: bed limits and maximum height
BedChecks(self) ==
    LET max_radius == Max(self.base_radius, self.top_radius)
        cx         == BED_CENTER[1]
        cy         == BED_CENTER[2]
    IN  IF \/ cx - max_radius < 0
           \/ cx + max_radius > BED_SIZE[1]
           \/ cy - max_radius < 0
           \/ cy + max_radius > BED_SIZE[2]
        THEN Raise("ValueError", <<"Lamp Shade extends beyond bed boundaries">>)
        ELSE IF self.total_height > MAX_Z
        THEN Raise("ValueError", <<"Height exceeds printer maximum", MAX_Z>>)
        ELSE Returned

MinRadiusCheck_Positive(self) ==
    LET min_radius == Min(self.base_radius, self.top_radius)
    IN  IF min_radius <= 0
        THEN Raise("ValueError", <<"Minimum radius must be >=10mm for stability", min_radius>>)
        ELSE Returned

\* lines 88-93: minimum radius (structural stability)
MinRadiusCheck(self) ==
    LET min_radius == Min(self.base_radius, self.top_radius)
    IN  IF min_radius < 1000
        THEN Raise("ValueError", <<"Minimum radius must be >=10mm for stability", min_radius>>)
        ELSE Returned

PrintabilityCheck_Skipped(self) == Returned

\* lines 95-108: printability (overhang constraints)
PrintabilityCheck(self) ==
    LET profile_func ==
            [z \in SampleHeights(self.total_height, self.layer_height) |->
                lamp_shade_radius_at_height(z, self.base_radius, self.top_radius,
                                            self.total_height, self.profile_type)]
        res == validate_printability(profile_func, self.total_height,
                                     self.layer_height, MAX_OVERHANG_ANGLE)
    IN  IF ~res[1]
        THEN Raise("ValueError", <<"Printability check failed: ", res[2]>>)
        ELSE Returned

\* the checks in the order validate() makes them; the first that raises ends it
validate(self) ==
    IF BasicChecks(self) # Returned THEN BasicChecks(self)
    ELSE IF BedChecks(self) # Returned THEN BedChecks(self)
    ELSE IF MinRadiusCheck(self) # Returned THEN MinRadiusCheck(self)
    ELSE PrintabilityCheck(self)

(***************************************************************************)
(* utility/helpers_geom.py: ensure_closed, and the layer perimeter of      *)
(* part1_geometry.py that is closed with it                                *)
(***************************************************************************)
\* np.asarray(poly_xy).ndim != 2 or shape[1] != 2: an empty list has shape (0,),
\* and rows of any other length than two give another second dimension
NotN2(poly_xy) ==
    Len(poly_xy) = 0 \/ \E k \in 1..Len(poly_xy) : Len(poly_xy[k]) # 2

\* np.linalg.norm(a - b) <= eps, with eps in units of 1e-9 mm.  Two different
\* grid points are at least one grid step apart, so a tolerance below the step
\* only accepts equal points; a larger tolerance is compared on the 1/100 mm
\* grid of the scanline polygons, to 1/1000 mm.
NormWithin(a, b, eps) ==
    LET dx  == Abs(a[1] - b[1])
        dy  == Abs(a[2] - b[2])
        lim == eps \div 1000000
    IN  IF a = b THEN 0 <= eps
        ELSE /\ dx * 10 <= lim
             /\ dy * 10 <= lim
             /\ (dx * dx + dy * dy) * 100 <= lim * lim

\* variant: the closing vertex is never appended
ensure_closed_unclosed(poly_xy, eps) ==
    IF NotN2(poly_xy) THEN Raise("ValueError", <<"poly_xy must be (N,2)">>)
    ELSE IF Len(poly_xy) < 3 THEN Raise("ValueError", <<"Need >= 3 vertices">>)
    ELSE [status |-> "returned", value |-> poly_xy]

\* the argument is only read: the result is a copy of it, or a new array of
\* its rows and its first row (np.vstack)
ensure_closed(poly_xy, eps) ==
    IF NotN2(poly_xy) THEN Raise("ValueError", <<"poly_xy must be (N,2)">>)
    ELSE IF Len(poly_xy) < 3 THEN Raise("ValueError", <<"Need >= 3 vertices">>)
    ELSE IF NormWithin(poly_xy[1], poly_xy[Len(poly_xy)], eps)
         THEN [status |-> "returned", value |-> poly_xy]
         ELSE [status |-> "returned", value |-> Append(poly_xy, poly_xy[1])]

\* variant: linspace with the endpoint included, so 0 and 2*pi are both sampled
generate_lamp_shade_layer_endpoint(z, params, num_points) ==
    LET n     == IF num_points = None THEN params.num_points ELSE num_points[1]
        r     == lamp_shade_radius_at_height(z, params.base_radius, params.top_radius,
                                             params.total_height, params.profile_type)
        twist == calculate_twist_angle(z, params)
        pt(i) == LET theta         == DivRound(36000 * (i - 1), Max(1, n - 1))
                     twisted_angle == theta + twist
                     final_radius  == r + calculate_radial_wave(theta, z, params)
                 IN  << BED_CENTER[1] + DivRound(final_radius * SinCentiDeg(twisted_angle + 9000), FracScale),
                        BED_CENTER[2] + DivRound(final_radius * SinCentiDeg(twisted_angle), FracScale) >>
        closed == ensure_closed([i \in 1..n |-> pt(i)], 1)
    IN  IF closed.status = "raised" THEN closed ELSE closed.value

\* generate_lamp_shade_layer: num_points is None or <<n>>; n samples over
\* [0, 360) degrees, endpoint excluded, then ensure_closed.  The result is the
\* closed perimeter, or what ensure_closed raised.
generate_lamp_shade_layer(z, params, num_points) ==
    LET n     == IF num_points = None THEN params.num_points ELSE num_points[1]
        r     == lamp_shade_radius_at_height(z, params.base_radius, params.top_radius,
                                             params.total_height, params.profile_type)
        twist == calculate_twist_angle(z, params)
        pt(i) == LET theta         == DivRound(36000 * (i - 1), n)
                     twisted_angle == theta + twist
                     final_radius  == r + calculate_radial_wave(theta, z, params)
                 IN  << BED_CENTER[1] + DivRound(final_radius * SinCentiDeg(twisted_angle + 9000), FracScale),
                        BED_CENTER[2] + DivRound(final_radius * SinCentiDeg(twisted_angle), FracScale) >>
        closed == ensure_closed([i \in 1..n |-> pt(i)], 1)
    IN  IF closed.status = "raised" THEN closed ELSE closed.value

\* ---- one call of validate() on drawn parameters ----
\* generate_lamp_shade_layers is not running
LgIdle ==
    /\ lg_params = LampShadeParams
    /\ lg_pc = "idle"
    /\ lg_z = NoFloat
    /\ lg_layers = <<>>

ValBaseRadii == {0, 500, 1000, 3000, 10500, 10600}

ValTopRadii == {-100, 1000, 2500, 8000}

ValHeights == {0, 1000, 5000, 22000, 22020}

ValLayerHeights == {0, 20, 30, 31}

ValNumPoints == {11, 12, 64}

ValProfileTypes == ProfileTypes \cup {"stepped"}

ValidateInit ==
    /\ \E b \in ValBaseRadii, t \in ValTopRadii, h \in ValHeights, lh \in ValLayerHeights,
          n \in ValNumPoints, pt \in ValProfileTypes :
          call = [fn |-> "validate",
                  self |-> [LampShadeParams EXCEPT !.base_radius = b, !.top_radius = t,
                                !.total_height = h, !.layer_height = lh,
                                !.num_points = n, !.profile_type = pt]]
    /\ ret = NoRet
    /\ LgIdle /\ DrvIdle /\ SpIdle /\ WgIdle

ValidateCall ==
    /\ call.fn = "validate"
    /\ ret = NoRet
    /\ ret' = validate(call.self)
    /\ UNCHANGED call

ValidateNext == ValidateCall /\ UNCHANGED <<lgVars, drvVars, spVars, wgVars>>

(***************************************************************************)
(* part1_geometry.py: generate_lamp_shade_layers                           *)
(* The loop variable z is a Python float: z = layer_height, then           *)
(* z += layer_height while z <= total_height.                              *)
(***************************************************************************)
\* the parameter object with its two heights in fixed point
LgFixed(p) ==
    [p EXCEPT !.total_height = Centi(p.total_height), !.layer_height = Centi(p.layer_height)]

LayersStart ==
    /\ lg_pc = "start"
    /\ lg_z' = FloatOf(lg_params.layer_height)
    /\ lg_pc' = "loop"
    /\ UNCHANGED <<lg_params, lg_layers>>

LayersIterate ==
    /\ lg_pc = "loop"
    /\ FloatLeq(lg_z, FloatOf(lg_params.total_height))
    /\ LET p         == LgFixed(lg_params)
           zc        == FloatToCenti(lg_z)
           perimeter == generate_lamp_shade_layer(zc, p, None)
           radius    == lamp_shade_radius_at_height(zc, p.base_radius, p.top_radius,
                                                    p.total_height, p.profile_type)
       IN  lg_layers' = Append(lg_layers, [z |-> lg_z, perimeter_xy |-> perimeter, radius |-> radius])
    /\ lg_z' = FloatAdd(lg_z, FloatOf(lg_params.layer_height))
    /\ UNCHANGED <<lg_params, lg_pc>>

LayersReturn ==
    /\ lg_pc = "loop"
    /\ ~FloatLeq(lg_z, FloatOf(lg_params.total_height))
    /\ lg_pc' = "done"
    /\ UNCHANGED <<lg_params, lg_z, lg_layers>>

\* decimal literals <<num, den>> the heights are drawn from
LgHeights == { <<10, 1>>, <<50, 1>>, <<3, 1>>, <<12, 10>> }

LgLayerHeights == { <<2, 1>>, <<2, 10>>, <<3, 10>>, <<25, 100>> }

LgInit ==
    /\ \E h \in LgHeights, lh \in LgLayerHeights, pt \in ProfileTypes :
          lg_params = [LampShadeParams EXCEPT !.total_height = h, !.layer_height = lh,
                                              !.num_points = 4, !.profile_type = pt]
    /\ lg_pc = "start"
    /\ lg_z = NoFloat
    /\ lg_layers = <<>>
    /\ CallIdle /\ DrvIdle /\ SpIdle /\ WgIdle

LgNext ==
    \/ LayersStart /\ UNCHANGED <<callVars, drvVars, spVars, wgVars>>
    \/ LayersIterate /\ UNCHANGED <<callVars, drvVars, spVars, wgVars>>
    \/ LayersReturn /\ UNCHANGED <<callVars, drvVars, spVars, wgVars>>

SpecLayers == LgInit /\ [][LgNext]_vars

LayersDone == lg_pc = "done"

\* C4: generate_lamp_shade_layers returns exactly floor(total_height /
\* layer_height) layers, the first at z = layer_height and each later one at a
\* strictly greater z.
C4_LayerCount ==
    LayersDone =>
        /\ Len(lg_layers) = Centi(lg_params.total_height) \div Centi(lg_params.layer_height)
        /\ lg_layers # <<>> => lg_layers[1].z = FloatOf(lg_params.layer_height)
        /\ \A i \in 2..Len(lg_layers) : FloatLess(lg_layers[i - 1].z, lg_layers[i].z)

\* the layers whose height is params.total_height
TopLayers ==
    {i \in 1..Len(lg_layers) : lg_layers[i].z = FloatOf(lg_params.total_height)}

\* C23: generate_lamp_shade_layers takes each height from a loop index, so
\* when total_height is a whole multiple of layer_height exactly one layer,
\* the last, is at z = total_height.
C23_TopLayerOnce ==
    ( /\ LayersDone
      /\ Centi(lg_params.total_height) % Centi(lg_params.layer_height) = 0 ) =>
        /\ Cardinality(TopLayers) = 1
        /\ Len(lg_layers) \in TopLayers

(***************************************************************************)
(* Claims about LampShadeParams.validate                                   *)
(***************************************************************************)
InsideBed(radius) ==
    /\ BED_CENTER[1] - radius >= 0
    /\ BED_CENTER[1] + radius <= BED_SIZE[1]
    /\ BED_CENTER[2] - radius >= 0
    /\ BED_CENTER[2] + radius <= BED_SIZE[2]

BasicConstraints(p) ==
    /\ p.base_radius > 0
    /\ p.top_radius > 0
    /\ p.total_height > 0
    /\ p.layer_height > 0
    /\ p.layer_height <= 30
    /\ p.num_points >= 12
    /\ Min(p.base_radius, p.top_radius) >= 1000
    /\ p.total_height <= MAX_Z
    /\ InsideBed(Max(p.base_radius, p.top_radius))

ValidateDone == call.fn = "validate" /\ ret # NoRet

\* C2: when validate() returns without raising, the parameters satisfy every
\* basic, bed, height and minimum-radius constraint; when one of them fails,
\* validate() raises ValueError.
C2_ValidateConstraints ==
    ValidateDone =>
        /\ ret = Returned => BasicConstraints(call.self)
        /\ ~BasicConstraints(call.self) => (ret.status = "raised" /\ ret.kind = "ValueError")

\* validate() has returned normally for a shade whose larger radius just
\* touches the bed edge and whose smaller radius is the 10 mm minimum
C2_Witness ==
    /\ ValidateDone
    /\ ret = Returned
    /\ call.self.base_radius = 10500
    /\ call.self.top_radius = 1000
    /\ call.self.num_points = 12
    /\ call.self.layer_height = 30

\* some consecutive pair of sampled layers is steeper than MAX_OVERHANG_ANGLE
HasOverhang(p) ==
    \E i \in 2..(p.total_height \div p.layer_height) :
        LET r1 == lamp_shade_radius_at_height(i * p.layer_height, p.base_radius,
                                              p.top_radius, p.total_height, p.profile_type)
            r0 == lamp_shade_radius_at_height((i - 1) * p.layer_height, p.base_radius,
                                              p.top_radius, p.total_height, p.profile_type)
        IN  AngleExceeds(r1 - r0, p.layer_height, MAX_OVERHANG_ANGLE)

\* main.py lines 48-54
MainParams ==
    [LampShadeParams EXCEPT !.base_radius = 3000, !.top_radius = 2500, !.total_height = 5000,
                            !.profile_type = "linear", !.num_points = 64, !.layer_height = 20]

\* C3: for parameters that pass every basic, bed, height and minimum-radius
\* check, validate() raises ValueError 'Printability check failed: <message>'
\* exactly when the profile has an overhang above MAX_OVERHANG_ANGLE and
\* returns normally otherwise; main's default parameters are validated.
C3_PrintabilityOutcome ==
    (ValidateDone /\ BasicConstraints(call.self)) =>
        /\ HasOverhang(call.self) =>
              /\ ret.status = "raised"
              /\ ret.kind = "ValueError"
              /\ ret.msg[1] = "Printability check failed: "
              /\ ret.msg[2].z \in {i * call.self.layer_height :
                                     i \in 2..(call.self.total_height \div call.self.layer_height)}
        /\ ~HasOverhang(call.self) => ret = Returned
        /\ call.self = MainParams => ret = Returned

\* validate() has returned normally on main's default parameters
C3_Witness ==
    ValidateDone /\ call.self = MainParams /\ ret = Returned

\* validate() has rejected a basic-valid shade for its overhang
C3_WitnessRejected ==
    /\ ValidateDone
    /\ BasicConstraints(call.self)
    /\ ret.status = "raised"
    /\ ret.msg[1] = "Printability check failed: "

SpecValidate == ValidateInit /\ [][ValidateNext]_vars

(***************************************************************************)
(* One call of validate_printability on a drawn profile.                   *)
(* A profile is r(z) = r0 + s1 * min(z, zk) + s2 * max(0, z - zk), the     *)
(* slopes s1, s2 given in tenths: a straight taper when s1 = s2, a kink at *)
(* height zk otherwise.                                                    *)
(***************************************************************************)
ProfileAt(prof, z) ==
    prof.r0 + (prof.s1 * Min(z, prof.zk) + prof.s2 * Max(0, z - prof.zk)) \div 10

Mirrored(prof) == [prof EXCEPT !.s1 = -prof.s1, !.s2 = -prof.s2]

PrSlopes == {-25, -10, -3, 0, 8, 10, 11, 25}

PrKinks == {100, 200}

PrHeights == {60, 500, 5000}

PrLayerHeights == {10, 20}

PrMaxAngles == {30, 45, 60}

PrintabilityInit ==
    /\ \E r0 \in {2000, 3000}, s1 \in PrSlopes, s2 \in PrSlopes, zk \in PrKinks,
          h \in PrHeights, lh \in PrLayerHeights, mx \in PrMaxAngles :
          call = [fn |-> "validate_printability",
                  profile |-> [r0 |-> r0, s1 |-> s1, s2 |-> s2, zk |-> zk],
                  total_height |-> h, layer_height |-> lh, max_overhang_angle |-> mx]
    /\ ret = NoRet
    /\ LgIdle /\ DrvIdle /\ SpIdle /\ WgIdle

PrintabilityCall ==
    /\ call.fn = "validate_printability"
    /\ ret = NoRet
    /\ LET profile_func == [z \in SampleHeights(call.total_height, call.layer_height)
                               |-> ProfileAt(call.profile, z)]
       IN  ret' = [status |-> "returned",
                   value |-> validate_printability(profile_func, call.total_height,
                                                   call.layer_height, call.max_overhang_angle)]
    /\ UNCHANGED call

PrintabilityNext == PrintabilityCall /\ UNCHANGED <<lgVars, drvVars, spVars, wgVars>>

SpecPrintability == PrintabilityInit /\ [][PrintabilityNext]_vars

PrintabilityDone == call.fn = "validate_printability" /\ ret # NoRet

\* the pair (z[i-1], z[i]) of the call's samples is above the call's limit
PairExceeds(c, i) ==
    AngleExceeds(ProfileAt(c.profile, i * c.layer_height)
                   - ProfileAt(c.profile, (i - 1) * c.layer_height),
                 c.layer_height, c.max_overhang_angle)

IsExampleCall(r0, slope) ==
    /\ PrintabilityDone
    /\ call.profile.r0 = r0
    /\ call.profile.s1 = slope
    /\ call.profile.s2 = slope
    /\ call.total_height = 5000
    /\ call.layer_height = 20
    /\ call.max_overhang_angle = 45

IncrementLeft(params) ==
    IF params.z_increment_per_point # None THEN params.z_increment_per_point[1]
    ELSE DivRound(params.layer_height * 10, params.num_points)

\* str.capitalize() on the profile names in use
Capitalize(name) ==
    CASE name = "linear" -> "Linear"
      [] name = "concave" -> "Concave"
      [] name = "convex" -> "Convex"
      [] name = "sinusoidal" -> "Sinusoidal"
      [] name = "stepped" -> "Stepped"
      [] OTHER -> name

\* the frame of compare_profiles(types, params_template) on entry
CompareFrame(types, params_template, return_to) ==
    [profile_types |-> types, params_template |-> params_template,
     params |-> None, i |-> 1, results |-> <<>>, failed |-> <<>>, table |-> None,
     return_to |-> return_to]

\* variant: params is bound to the template itself, not to a copy
CompareBind_aliased(params_template, profile_type) ==
    LET params == [params_template EXCEPT !.profile_type = profile_type,
                                          !.z_increment_per_point = None]
    IN  [params_template |-> params, params |-> params]

\* part4_analysis.py 93-95: copy.copy(params_template), then the two
\* assignments to the copy; all attributes of LampShadeParams are scalars
CompareBind(params_template, profile_type) ==
    [params_template |-> params_template,
     params |-> [params_template EXCEPT !.profile_type = profile_type,
                                        !.z_increment_per_point = None]]

\* the values of a parameter object that validation and geometry depend on
ParamValues(p) ==
    [ base_radius |-> p.base_radius, top_radius |-> p.top_radius,
      total_height |-> p.total_height, layer_height |-> p.layer_height,
      num_points |-> p.num_points, profile_type |-> p.profile_type ]

\* one call generate_lamp_shade_layers(p) by `caller`, with whether validate()
\* had returned for these values when the call was made
LayersCall(p, caller, validated) ==
    [ params |-> ParamValues(p), by |-> caller, validated |-> ParamValues(p) \in validated ]

\* test_all_profiles.py 36
profile_types == <<"linear", "concave", "convex", "sinusoidal">>

\* main.py 45-62: build params, validate, return on ValueError
MainValidate ==
    /\ drv_pc = "main"
    /\ drv_params' = MainParams
    /\ IF validate(MainParams) = Returned
       THEN /\ drv_validated' = drv_validated \cup {ParamValues(MainParams)}
            /\ drv_pc' = "main_layers"
       ELSE /\ drv_pc' = "returned"
            /\ UNCHANGED drv_validated
    /\ UNCHANGED <<drv_arg, drv_i, drv_results, drv_generated, cmp>>

\* main.py 64-66
MainLayers ==
    /\ drv_pc = "main_layers"
    /\ drv_generated' = drv_generated \cup {LayersCall(drv_params, "main", drv_validated)}
    /\ drv_pc' = "main_pipeline"
    /\ UNCHANGED <<drv_arg, drv_params, drv_i, drv_results, drv_validated, cmp>>

\* main.py 68-81: toolpath, G-code file and analysis; an exception is not
\* caught; the toolpath call leaves its increment in params
MainPipeline ==
    /\ drv_pc = "main_pipeline"
    /\ \E ok \in BOOLEAN :
          IF ok
          THEN /\ drv_pc' = "main_compare"
               /\ drv_params' = [drv_params EXCEPT
                                    !.z_increment_per_point = <<IncrementLeft(drv_params)>>]
          ELSE /\ drv_pc' = "crashed"
               /\ UNCHANGED drv_params
    /\ UNCHANGED <<drv_arg, drv_i, drv_results, drv_validated, drv_generated, cmp>>

\* main.py 83-84: compare_profiles([...], params)
MainCompare ==
    /\ drv_pc = "main_compare"
    /\ cmp' = CompareFrame(profile_types, drv_params, "main_done")
    /\ drv_pc' = "compare_profiles"
    /\ UNCHANGED <<drv_arg, drv_params, drv_i, drv_results, drv_validated, drv_generated>>

\* main.py 86-92
MainReturn ==
    /\ drv_pc = "main_done"
    /\ drv_pc' = "returned"
    /\ UNCHANGED <<drv_arg, drv_params, drv_i, drv_results, drv_validated, drv_generated, cmp>>

\* the stages of the try block, part4_analysis.py 98-105, in order
CompareStages == <<"layers", "toolpath", "gcode", "analysis">>

\* part4_analysis.py 92-107: one iteration of the loop over profile_types.
\* The stage that raises, if any, is left open (0: none); the toolpath stage
\* leaves its increment in the copy; `failed` is the "Failed for" lines; an
\* analysis is represented by the parameters the pipeline was started on.
CompareIterate ==
    /\ drv_pc = "compare_profiles"
    /\ cmp.i <= Len(cmp.profile_types)
    /\ LET profile_type == cmp.profile_types[cmp.i]
           bound  == CompareBind(cmp.params_template, profile_type)
           params == bound.params
       IN  /\ drv_generated' = drv_generated
                                  \cup {LayersCall(params, "compare_profiles", drv_validated)}
           /\ \E raised \in 0..Len(CompareStages) :
                 cmp' = [cmp EXCEPT
                           !.i = cmp.i + 1,
                           !.params_template = bound.params_template,
                           !.params = IF raised \in {1, 2} THEN <<params>>
                                      ELSE <<[params EXCEPT !.z_increment_per_point =
                                                               <<IncrementLeft(params)>>]>>,
                           !.results = IF raised = 0
                                       THEN Append(cmp.results, <<profile_type, params>>)
                                       ELSE cmp.results,
                           !.failed = IF raised = 0 THEN cmp.failed
                                      ELSE Append(cmp.failed,
                                                  <<profile_type, CompareStages[raised]>>)]
    /\ UNCHANGED <<drv_pc, drv_arg, drv_params, drv_i, drv_results, drv_validated>>

\* part4_analysis.py 109-122: the table is printed, one row per entry of
\* results, and the function returns; the frame is kept with what it printed
CompareReturn ==
    /\ drv_pc = "compare_profiles"
    /\ cmp.i > Len(cmp.profile_types)
    /\ drv_pc' = cmp.return_to
    /\ cmp' = [cmp EXCEPT !.table = <<[k \in 1..Len(cmp.results) |->
                                         Capitalize(cmp.results[k][1])]>>]
    /\ UNCHANGED <<drv_arg, drv_params, drv_i, drv_results, drv_validated, drv_generated>>

\* test_all_profiles.py 24-33, 46-55: the parameters of one profile
AllParams(profile_type) ==
    [LampShadeParams EXCEPT !.base_radius = 3000, !.top_radius = 2500, !.total_height = 5000,
                            !.layer_height = 20, !.line_width = 48, !.num_points = 64,
                            !.nozzle_temp = 215, !.bed_temp = 60,
                            !.profile_type = profile_type]

\* test_all_profiles.py 40-108: one iteration of the loop over profile_types;
\* any exception, of validate() or of a later stage, skips to the next profile
AllIterate ==
    /\ drv_pc = "generate_all_profiles"
    /\ drv_i <= Len(profile_types)
    /\ LET profile_type == profile_types[drv_i]
           params       == AllParams(profile_type)
       IN  /\ drv_params' = params
           /\ IF validate(params) = Returned
              THEN /\ drv_validated' = drv_validated \cup {ParamValues(params)}
                   /\ drv_generated' = drv_generated
                         \cup {LayersCall(params, "generate_all_profiles", drv_validated')}
                   /\ \E ok \in BOOLEAN :
                         drv_results' = IF ok THEN Append(drv_results, profile_type)
                                        ELSE drv_results
              ELSE UNCHANGED <<drv_validated, drv_generated, drv_results>>
    /\ drv_i' = drv_i + 1
    /\ UNCHANGED <<drv_pc, drv_arg, cmp>>

\* test_all_profiles.py 110-132: the summary, then compare_profiles on the first
\* len(results) profile types and a fresh LampShadeParams()
AllCompare ==
    /\ drv_pc = "generate_all_profiles"
    /\ drv_i > Len(profile_types)
    /\ IF Len(drv_results) >= 2
       THEN /\ cmp' = CompareFrame(SubSeq(profile_types, 1, Len(drv_results)),
                                    LampShadeParams, "all_done")
            /\ drv_pc' = "compare_profiles"
       ELSE /\ drv_pc' = "all_done"
            /\ UNCHANGED cmp
    /\ UNCHANGED <<drv_arg, drv_params, drv_i, drv_results, drv_validated, drv_generated>>

\* test_all_profiles.py 134
AllReturn ==
    /\ drv_pc = "all_done"
    /\ drv_pc' = "returned"
    /\ UNCHANGED <<drv_arg, drv_params, drv_i, drv_results, drv_validated, drv_generated, cmp>>

\* test_all_profiles.py 137-169: test_single_profile(profile_type)
TestSingle ==
    /\ drv_pc = "test_single_profile"
    /\ LET params == [LampShadeParams EXCEPT !.base_radius = 3000, !.top_radius = 2500,
                                             !.total_height = 5000, !.profile_type = drv_arg]
       IN  /\ drv_params' = params
           /\ IF validate(params) = Returned
              THEN /\ drv_validated' = drv_validated \cup {ParamValues(params)}
                   /\ drv_generated' = drv_generated
                         \cup {LayersCall(params, "test_single_profile", drv_validated')}
                   /\ \E ok \in BOOLEAN :
                         drv_results' = IF ok THEN <<TRUE>> ELSE <<FALSE>>
              ELSE /\ drv_results' = <<FALSE>>
                   /\ UNCHANGED <<drv_validated, drv_generated>>
    /\ drv_pc' = "returned"
    /\ UNCHANGED <<drv_arg, drv_i, cmp>>

\* the scripts' entry points: main(), generate_all_profiles(), and
\* test_single_profile with a known or an unknown profile name
DrvInit ==
    /\ \E entry \in {"main", "generate_all_profiles", "test_single_profile"} :
          /\ drv_pc = entry
          /\ drv_arg \in (IF entry = "test_single_profile"
                          THEN ProfileTypes \cup {"stepped"} ELSE {None})
          /\ drv_i = IF entry = "generate_all_profiles" THEN 1 ELSE 0
    /\ drv_params = None
    /\ drv_results = <<>>
    /\ drv_validated = {}
    /\ drv_generated = {}
    /\ cmp = None
    /\ CallIdle /\ LgIdle /\ SpIdle /\ WgIdle

DrvNext ==
    \/ MainValidate /\ UNCHANGED <<callVars, lgVars, spVars, wgVars>>
    \/ MainLayers /\ UNCHANGED <<callVars, lgVars, spVars, wgVars>>
    \/ MainPipeline /\ UNCHANGED <<callVars, lgVars, spVars, wgVars>>
    \/ MainCompare /\ UNCHANGED <<callVars, lgVars, spVars, wgVars>>
    \/ MainReturn /\ UNCHANGED <<callVars, lgVars, spVars, wgVars>>
    \/ CompareIterate /\ UNCHANGED <<callVars, lgVars, spVars, wgVars>>
    \/ CompareReturn /\ UNCHANGED <<callVars, lgVars, spVars, wgVars>>
    \/ AllIterate /\ UNCHANGED <<callVars, lgVars, spVars, wgVars>>
    \/ AllCompare /\ UNCHANGED <<callVars, lgVars, spVars, wgVars>>
    \/ AllReturn /\ UNCHANGED <<callVars, lgVars, spVars, wgVars>>
    \/ TestSingle /\ UNCHANGED <<callVars, lgVars, spVars, wgVars>>

SpecDriver == DrvInit /\ [][DrvNext]_vars

\* C1: every call of generate_lamp_shade_layers made by main,
\* generate_all_profiles, test_single_profile and compare_profiles is on
\* parameter values for which validate() has returned before the call.
C1_GeneratedAfterValidation ==
    \A g \in drv_generated : g.validated

(***************************************************************************)
(* part3_gcode.py: generate_spiral_lamp_shade_toolpath                     *)
(* Toolpath points are <<x, y, z>> in units of 1/1000 mm.                  *)
(***************************************************************************)
\* variant: one full layer_height of rise per point
SpiralIncrement_LayerHeight(params) ==
    IF params.z_increment_per_point # None THEN params.z_increment_per_point[1]
    ELSE Centi(params.layer_height) * 10

\* step 1: z_increment_per_point if already set, else layer_height / num_points
SpiralIncrement(params) ==
    IF params.z_increment_per_point # None THEN params.z_increment_per_point[1]
    ELSE DivRound(Centi(params.layer_height) * 10, params.num_points)

\* step 2b: drop the duplicate closing point if present
StripClosing(perimeter) ==
    IF Len(perimeter) >= 2 /\ perimeter[1] = perimeter[Len(perimeter)]
    THEN SubSeq(perimeter, 1, Len(perimeter) - 1)
    ELSE perimeter

\* steps 2a, 2c: the points of one layer, rising by z_inc from z_base
SpiralLayer(layer, z_inc) ==
    LET perimeter == StripClosing(layer.perimeter_xy)
        z_base    == FloatToCenti(layer.z) * 10
    IN  [i \in 1..Len(perimeter) |->
            <<perimeter[i][1] * 10, perimeter[i][2] * 10, z_base + (i - 1) * z_inc>>]

generate_spiral_lamp_shade_toolpath(layers, params) ==
    LET z_inc == SpiralIncrement(params)
        spiral_points[k \in 0..Len(layers)] ==
            IF k = 0 THEN <<>> ELSE spiral_points[k - 1] \o SpiralLayer(layers[k], z_inc)
    IN  spiral_points[Len(layers)]

\* the call generate_spiral_lamp_shade_toolpath(layers, params) on the layers
\* generate_lamp_shade_layers returned; params keeps the increment used
SpiralCall ==
    /\ lg_pc = "done"
    /\ sp_pc = "ready"
    /\ sp_path' = generate_spiral_lamp_shade_toolpath(lg_layers, lg_params)
    /\ lg_params' = [lg_params EXCEPT !.z_increment_per_point = <<SpiralIncrement(lg_params)>>]
    /\ sp_pc' = "done"
    /\ UNCHANGED <<lg_pc, lg_z, lg_layers>>

SpHeights == { <<3, 1>>, <<12, 10>>, <<10, 1>> }

SpLayerHeights == { <<2, 1>>, <<2, 10>>, <<3, 10>> }

SpNumPoints == {5, 10}

\* params as main builds them, fresh (z_increment_per_point None) or as an
\* earlier call on the same params left them
SpiralInit ==
    /\ \E h \in SpHeights, lh \in SpLayerHeights, n \in SpNumPoints,
          pt \in {"linear", "sinusoidal"}, fresh \in BOOLEAN :
          lg_params = [LampShadeParams EXCEPT
                          !.total_height = h, !.layer_height = lh,
                          !.num_points = n, !.profile_type = pt,
                          !.z_increment_per_point =
                              IF fresh THEN None ELSE <<DivRound(Centi(lh) * 10, n)>>]
    /\ lg_pc = "start"
    /\ lg_z = NoFloat
    /\ lg_layers = <<>>
    /\ sp_pc = "ready"
    /\ sp_path = <<>>
    /\ CallIdle /\ DrvIdle /\ WgIdle

SpiralNext ==
    \/ LayersStart /\ UNCHANGED <<callVars, drvVars, spVars, wgVars>>
    \/ LayersIterate /\ UNCHANGED <<callVars, drvVars, spVars, wgVars>>
    \/ LayersReturn /\ UNCHANGED <<callVars, drvVars, spVars, wgVars>>
    \/ SpiralCall /\ UNCHANGED <<callVars, drvVars, wgVars>>

SpecSpiral == SpiralInit /\ [][SpiralNext]_vars

SpiralDone == sp_pc = "done"

FILAMENT_DIAMETER == 175

\* pi * 10000
PiScaled == 31416

\* width * height + pi * (height / 2)^2
extruded_area(width_mm, height_mm) ==
    width_mm * height_mm + DivRound(PiScaled * height_mm * height_mm, 40000)

\* variant: the flow multiplier is left out
delta_E_for_move_flow_ignored(L_mm, width_mm, height_mm, filament_d_mm, flow_mult) ==
    LET filament_area == DivRound(PiScaled * filament_d_mm * filament_d_mm, 40000)
        volume_out    == extruded_area(width_mm, height_mm) * L_mm
    IN  DivRound(volume_out * 100, filament_area)

\* flow_mult * extruded_area * L / (pi * (filament_d / 2)^2)
delta_E_for_move(L_mm, width_mm, height_mm, filament_d_mm, flow_mult) ==
    LET filament_area == DivRound(PiScaled * filament_d_mm * filament_d_mm, 40000)
        volume_out    == extruded_area(width_mm, height_mm) * L_mm
    IN  DivRound(DivRound(volume_out * 10, filament_area) * flow_mult, 10)

(***************************************************************************)
(* Text of G-code lines.  A line is [text, words]: the text as written and *)
(* the <<letter, value>> fields of a move; fixed lines have no words.      *)
(***************************************************************************)
Raw(text) == [text |-> text, words |-> <<>>]

ZeroStr == <<"", "0", "00", "000", "0000">>

\* n >= 0 in exactly w digits, as the fraction of a fixed-point format
Pad(n, w) == ZeroStr[w - Len(ToString(n)) + 1] \o ToString(n)

\* f"{v:.3f}" of a length held in 1/1000 mm
Fmt3(v) ==
    (IF v < 0 THEN "-" ELSE "") \o ToString(Abs(v) \div 1000) \o "." \o Pad(Abs(v) % 1000, 3)

\* variant: the filament length is printed with three decimals
Fmt5_three_decimals(v) ==
    (IF v < 0 THEN "-" ELSE "") \o ToString(Abs(v) \div 100000) \o "."
        \o Pad(DivRound(Abs(v) % 100000, 100) % 1000, 3)

\* f"{v:.5f}" of a filament length held in 1/100000 mm
Fmt5(v) ==
    (IF v < 0 THEN "-" ELSE "") \o ToString(Abs(v) \div 100000) \o "." \o Pad(Abs(v) % 100000, 5)

\* "G1" followed by its fields and an optional comment
G1Line(words, comment) ==
    LET body[k \in 0..Len(words)] ==
            IF k = 0 THEN "G1" ELSE body[k - 1] \o " " \o words[k][1] \o words[k][2]
    IN  [text |-> body[Len(words)] \o comment, words |-> words]

\* variant: homing moved after the final wait for the printing temperature
start_gcode_minimal_late_home(nozzle_temp, bed_temp) ==
    << Raw("G21 ; set units to millimeters"),
       Raw("G90 ; use absolute coordinates for positioning"),
       Raw("M83 ; use relative distances for extrusion"),
       Raw("M104 S" \o ToString(nozzle_temp) \o " ; set hotend temp"),
       Raw("M140 S" \o ToString(bed_temp) \o " ; set bed temp"),
       Raw("M190 S" \o ToString(bed_temp) \o " ; wait for bed temp"),
       Raw("M109 S170 ; wait for hotend temp (partial)"),
       Raw("M109 S" \o ToString(nozzle_temp) \o " ; wait for hotend temp"),
       Raw("G28 ; home all without mesh bed level"),
       Raw("G92 E0 ; reset extruder position") >>

\* utility/helpers_gcode.py 8-39
start_gcode_minimal(nozzle_temp, bed_temp) ==
    << Raw("; ===== Parametric Lamp Shade Slicer - Prusa MK4S ====="),
       Raw("; Generated with custom lamp shade slicer"),
       Raw("; printer_model = Prusa MK4S"),
       Raw("; nozzle_diameter = 0.4"),
       Raw("; filament_diameter = 1.75"),
       Raw(""),
       Raw("G21 ; set units to millimeters"),
       Raw("G90 ; use absolute coordinates for positioning"),
       Raw("M83 ; use relative distances for extrusion"),
       Raw(""),
       Raw("; Set acceleration limits for Prusa MK4S"),
       Raw("M201 X2500 Y2500 Z200 E2500 ; sets maximum accelerations, mm/sec^2"),
       Raw("M203 X200 Y200 Z12 E120 ; sets maximum feedrates, mm/sec"),
       Raw("M204 P1250 R1250 T1250 ; sets acceleration (P, T) and retract acceleration (R), mm/sec^2"),
       Raw(""),
       Raw("; Set temperatures"),
       Raw("M104 S" \o ToString(nozzle_temp) \o " ; set hotend temp"),
       Raw("M140 S" \o ToString(bed_temp) \o " ; set bed temp"),
       Raw("M190 S" \o ToString(bed_temp) \o " ; wait for bed temp"),
       Raw("M109 S170 ; wait for hotend temp (partial)"),
       Raw(""),
       Raw("; Home all axes"),
       Raw("G28 ; home all without mesh bed level"),
       Raw(""),
       Raw("; Heat to printing temperature"),
       Raw("M109 S" \o ToString(nozzle_temp) \o " ; wait for hotend temp"),
       Raw(""),
       Raw("; Reset extruder"),
       Raw("G92 E0 ; reset extruder position") >>

\* variant: the return to absolute positioning is missing
end_gcode_minimal_stays_relative ==
    << Raw("G92 E0 ; reset extruder"),
       Raw("M104 S0 ; turn off hotend temperature"),
       Raw("M140 S0 ; turn off heated bed temperature"),
       Raw("M107 ; turn off fan"),
       Raw("G91 ; relative positioning"),
       Raw("G1 E-2 F2700 ; retract filament"),
       Raw("G1 Z10 F900 ; raise Z"),
       Raw("M84 ; disable motors") >>

\* utility/helpers_gcode.py 42-65
end_gcode_minimal ==
    << Raw(""),
       Raw("; ===== End of print ====="),
       Raw("G92 E0 ; reset extruder"),
       Raw(""),
       Raw("; Turn off hotend and bed"),
       Raw("M104 S0 ; turn off hotend temperature"),
       Raw("M140 S0 ; turn off heated bed temperature"),
       Raw(""),
       Raw("; Disable fan"),
       Raw("M107 ; turn off fan"),
       Raw(""),
       Raw("; Retract and raise Z"),
       Raw("G91 ; relative positioning"),
       Raw("G1 E-2 F2700 ; retract filament"),
       Raw("G1 Z10 F900 ; raise Z"),
       Raw(""),
       Raw("; Return to absolute positioning"),
       Raw("G90 ; absolute positioning"),
       Raw(""),
       Raw("; Disable motors"),
       Raw("M84 ; disable motors") >>

(***************************************************************************)
(* part3_gcode.py: write_lamp_shade_gcode.  spiral_path is a sequence of   *)
(* points <<x, y, z>> in 1/1000 mm.  generation_time, a difference of      *)
(* clock readings, is left out of the stats.                               *)
(***************************************************************************)
\* variant: the written text without the final line break
FileContent_NoFinalBreak(gcode_lines) ==
    LET joined[k \in 1..Len(gcode_lines)] ==
            IF k = 1 THEN gcode_lines[1].text
            ELSE joined[k - 1] \o "\n" \o gcode_lines[k].text
    IN  IF gcode_lines = <<>> THEN "" ELSE joined[Len(gcode_lines)]

\* line 151: "\n".join(gcode_lines) + "\n"
FileContent(gcode_lines) ==
    LET joined[k \in 1..Len(gcode_lines)] ==
            IF k = 1 THEN gcode_lines[1].text
            ELSE joined[k - 1] \o "\n" \o gcode_lines[k].text
    IN  (IF gcode_lines = <<>> THEN "" ELSE joined[Len(gcode_lines)]) \o "\n"

\* 3D length of the segment from p to q
SegmentLength(p, q) ==
    ISqrt((q[1] - p[1]) * (q[1] - p[1]) + (q[2] - p[2]) * (q[2] - p[2])
            + (q[3] - p[3]) * (q[3] - p[3]))

\* filament for the segment from p to q
SegmentDeltaE(p, q, params) ==
    delta_E_for_move(SegmentLength(p, q), params.line_width, params.layer_height,
                     FILAMENT_DIAMETER, params.flow_multiplier)

\* variant: a repeated z counts as a decrease
ZDecreased_OrEqual(z, prev_z) == z <= prev_z

\* the monotonic spiral invariant is broken: the new z is below the previous z
ZDecreased(z, prev_z) == z < prev_z

\* the combined X/Y/Z move carrying dE
ExtrusionMove(q, dE, params) ==
    G1Line(<< <<"X", Fmt3(q[1])>>, <<"Y", Fmt3(q[2])>>, <<"Z", Fmt3(q[3])>>,
              <<"E", Fmt5(dE)>>, <<"F", ToString(params.print_speed)>> >>, "")

\* lines 118-136: header, title block, travel to the first point
WgHeader ==
    /\ wg_pc = "header"
    /\ IF wg_in.spiral_path = <<>>
       THEN \* spiral_path[0] on an empty array
            /\ wg_pc' = "raised"
            /\ wg_out' = [error |-> "IndexError"]
            /\ UNCHANGED <<wg_i, wg_prev_z, wg_lines>>
       ELSE LET params == wg_in.params
                p0     == wg_in.spiral_path[1]
            IN  /\ wg_lines' =
                      start_gcode_minimal(params.nozzle_temp, params.bed_temp)
                      \o << Raw(""),
                            Raw("; ===== SPIRAL LAMP SHADE TOOLPATH ====="),
                            Raw("; Total points: " \o ToString(Len(wg_in.spiral_path))),
                            Raw("; Profile: " \o params.profile_type),
                            Raw(""),
                            G1Line(<< <<"Z", Fmt3(p0[3])>>, <<"F", "900">> >>,
                                   " ; move to start Z"),
                            G1Line(<< <<"X", Fmt3(p0[1])>>, <<"Y", Fmt3(p0[2])>>,
                                      <<"F", ToString(params.travel_speed)>> >>,
                                   " ; travel to start"),
                            Raw(""),
                            Raw("; Begin spiral printing") >>
                /\ wg_prev_z' = p0[3]
                /\ wg_i' = 2
                /\ wg_pc' = "loop"
                /\ UNCHANGED wg_out
    /\ UNCHANGED <<wg_in, wg_total, wg_file>>

\* the loop over consecutive point pairs (lines 138-142): one iteration
WgSegment ==
    /\ wg_pc = "loop"
    /\ wg_i <= Len(wg_in.spiral_path)
    /\ LET p  == wg_in.spiral_path[wg_i - 1]
           q  == wg_in.spiral_path[wg_i]
           dE == SegmentDeltaE(p, q, wg_in.params)
       IN  IF ZDecreased(q[3], wg_prev_z)
           THEN /\ wg_pc' = "raised"
                /\ wg_out' = [error |-> "Z decreased", index |-> wg_i]
                /\ UNCHANGED <<wg_i, wg_prev_z, wg_lines, wg_total>>
           ELSE /\ wg_lines' = IF dE > 0
                               THEN Append(wg_lines, ExtrusionMove(q, dE, wg_in.params))
                               ELSE wg_lines
                /\ wg_total' = wg_total + SegmentLength(p, q)
                /\ wg_prev_z' = q[3]
                /\ wg_i' = wg_i + 1
                /\ UNCHANGED <<wg_pc, wg_out>>
    /\ UNCHANGED <<wg_in, wg_file>>

\* lines 144-172: footer, file, statistics
WgFooter ==
    /\ wg_pc = "loop"
    /\ wg_i > Len(wg_in.spiral_path)
    /\ LET gcode_lines == wg_lines \o <<Raw(""), Raw("; ===== END =====")>> \o end_gcode_minimal
           content     == FileContent(gcode_lines)
       IN  /\ wg_lines' = gcode_lines
           /\ wg_file' = <<content>>
           /\ wg_out' = [ file_size |-> Len(content),
                          line_count |-> Len(gcode_lines),
                          toolpath_points |-> Len(wg_in.spiral_path),
                          total_distance |-> 0 ]
    /\ wg_pc' = "returned"
    /\ UNCHANGED <<wg_in, wg_i, wg_prev_z, wg_total>>

MaxPathLen == 3

\* the points toolpaths are drawn from
WgPoints ==
    { <<10000, 10000, 200>>, <<13000, 14000, 200>>, <<13000, 14000, 400>>,
      <<10000, 10000, 100>> }

WgPaths == UNION { [1..n -> WgPoints] : n \in 0..MaxPathLen }

WgInit ==
    /\ \E path \in WgPaths, flow \in {0, 100}, pt \in {"linear", "sinusoidal"} :
          wg_in = [ spiral_path |-> path,
                    params |-> [LampShadeParams EXCEPT !.flow_multiplier = flow,
                                                       !.profile_type = pt] ]
    /\ wg_pc = "header"
    /\ wg_i = 0
    /\ wg_prev_z = 0
    /\ wg_lines = <<>>
    /\ wg_total = 0
    /\ wg_file = None
    /\ wg_out = None
    /\ CallIdle /\ LgIdle /\ DrvIdle /\ SpIdle

WgNext ==
    \/ WgHeader /\ UNCHANGED <<callVars, lgVars, drvVars, spVars>>
    \/ WgSegment /\ UNCHANGED <<callVars, lgVars, drvVars, spVars>>
    \/ WgFooter /\ UNCHANGED <<callVars, lgVars, drvVars, spVars>>

SpecGcode == WgInit /\ [][WgNext]_vars

WgReturned == wg_pc = "returned"

WgRaised == wg_pc = "raised"

\* some point of the toolpath lies below its predecessor
HasDecrease(path) == \E i \in 2..Len(path) : path[i][3] < path[i - 1][3]

\* C6: when some toolpath point has a z lower than its predecessor,
\* write_lamp_shade_gcode aborts with the fatal Z error at the first such
\* point, writing no file and returning no statistics; for a toolpath whose z
\* never decreases it does not raise this error.
C6_MonotonicZ ==
    (WgReturned \/ WgRaised) =>
        LET path == wg_in.spiral_path
        IN  /\ HasDecrease(path) =>
                  /\ WgRaised
                  /\ wg_out.error = "Z decreased"
                  /\ path[wg_out.index][3] < path[wg_out.index - 1][3]
                  /\ ~HasDecrease(SubSeq(path, 1, wg_out.index - 1))
                  /\ wg_file = None
            /\ ~HasDecrease(path) =>
                  /\ WgRaised => wg_out.error # "Z decreased"
                  /\ path # <<>> => WgReturned

\* a toolpath that rises and then drops has been refused at its third point
C6_Witness ==
    /\ WgRaised
    /\ Len(wg_in.spiral_path) = 3
    /\ wg_in.spiral_path[2][3] = 400
    /\ wg_in.spiral_path[3][3] = 200
    /\ wg_out.index = 3

\* the letters of a line's fields, in order
Letters(line) == [k \in 1..Len(line.words) |-> line.words[k][1]]

\* the toolpath indices whose segment from the previous point extrudes
Extruding(path, params) ==
    {i \in 2..Len(path) : SegmentDeltaE(path[i - 1], path[i], params) > 0}

\* C7: for a non-empty toolpath the lines are, in order, the start preamble, a Z
\* move and an XY travel to the first point (neither with an E field), one
\* extrusion move per extruding segment, and the shutdown footer; the text is
\* written to the file, and the stats give line_count as the number of lines,
\* file_size as the length of the written text and toolpath_points as the
\* toolpath length.
C7_LinesAndStats ==
    WgReturned =>
        LET path     == wg_in.spiral_path
            params   == wg_in.params
            preamble == start_gcode_minimal(params.nozzle_temp, params.bed_temp)
            N        == Len(preamble)
            M        == Len(wg_lines)
            F        == Len(end_gcode_minimal)
            moves    == SubSeq(wg_lines, N + 10, M - F - 2)
            ext      == Extruding(path, params)
            bytes[k \in 0..M] ==
                IF k = 0 THEN 0 ELSE bytes[k - 1] + Len(wg_lines[k].text) + 1
        IN  /\ path # <<>>
            /\ SubSeq(wg_lines, 1, N) = preamble
            /\ Letters(wg_lines[N + 6]) = <<"Z", "F">>
            /\ wg_lines[N + 6].words[1][2] = Fmt3(path[1][3])
            /\ Letters(wg_lines[N + 7]) = <<"X", "Y", "F">>
            /\ wg_lines[N + 7].words[1][2] = Fmt3(path[1][1])
            /\ wg_lines[N + 7].words[2][2] = Fmt3(path[1][2])
            /\ Len(moves) = Cardinality(ext)
            /\ \A i \in ext :
                  LET move == moves[Cardinality({j \in ext : j <= i})]
                  IN  /\ Letters(move) = <<"X", "Y", "Z", "E", "F">>
                      /\ move.words[1][2] = Fmt3(path[i][1])
                      /\ move.words[2][2] = Fmt3(path[i][2])
                      /\ move.words[3][2] = Fmt3(path[i][3])
            /\ SubSeq(wg_lines, M - F + 1, M) = end_gcode_minimal
            /\ wg_file # None
            /\ wg_out.file_size = Len(wg_file[1])
            /\ wg_out.file_size = bytes[M]
            /\ wg_out.line_count = M
            /\ wg_out.toolpath_points = Len(path)

\* a three-point toolpath has been written with two extrusion moves
C7_Witness ==
    /\ WgReturned
    /\ Len(wg_in.spiral_path) = 3
    /\ Cardinality(Extruding(wg_in.spiral_path, wg_in.params)) = 2
    /\ wg_out.line_count = Len(start_gcode_minimal(215, 60)) + 9 + 2 + 2 + Len(end_gcode_minimal)

\* C8: the total_distance entry of the returned stats is the sum of the 3D
\* lengths of all consecutive toolpath segments, extruded or not.
C8_TotalDistance ==
    WgReturned =>
        LET path == wg_in.spiral_path
            sum[k \in 1..Len(path)] ==
                IF k = 1 THEN 0 ELSE sum[k - 1] + SegmentLength(path[k - 1], path[k])
        IN  wg_out.total_distance = sum[Len(path)]

(***************************************************************************)
(* utility/helpers_geom.py and part2_scanline.py: the scanline / even-odd  *)
(* engine.  Coordinates are fixed-point integers in units of 1/100 mm; a   *)
(* point is <<x, y>>, a polygon a sequence of points.                      *)
(***************************************************************************)
\* 1 mm in scanline units
Mm == 100

\* the horizontal line y crosses the edge (p0, p1): half-open test
EdgeCrosses(p0, p1, y) == Min(p0[2], p1[2]) <= y /\ y < Max(p0[2], p1[2])

\* |p0.y - p1.y| < eps, eps in units of 1e-9 mm
EdgeHorizontal(p0, p1, eps) == Abs(p0[2] - p1[2]) < (eps + 9999999) \div 10000000

\* x = p0.x + f * (p1.x - p0.x) with f = (y - p0.y) / (p1.y - p0.y)
EdgeX(p0, p1, y) ==
    LET dy == p1[2] - p0[2]
        dx == p1[1] - p0[1]
    IN  IF dy > 0 THEN p0[1] + DivRound((y - p0[2]) * dx, dy)
        ELSE p0[1] + DivRound((p0[2] - y) * dx, -dy)

\* variant: closed test on both ends of the edge
scanline_x_intersections_closed(poly_xy, y, eps) ==
    LET closed == ensure_closed(poly_xy, eps)
        poly   == closed.value
        Collect[i \in 0..(Len(poly) - 1)] ==
            IF i = 0 THEN <<>>
            ELSE IF /\ ~EdgeHorizontal(poly[i], poly[i + 1], eps)
                    /\ Min(poly[i][2], poly[i + 1][2]) <= y
                    /\ y <= Max(poly[i][2], poly[i + 1][2])
                    /\ poly[i][2] # poly[i + 1][2]
                 THEN Append(Collect[i - 1], EdgeX(poly[i], poly[i + 1], y))
                 ELSE Collect[i - 1]
    IN  IF closed.status = "raised" THEN closed
        ELSE [status |-> "returned",
              value |-> SortSeq(Collect[Len(poly) - 1], LAMBDA a, b : a < b)]

scanline_x_intersections(poly_xy, y, eps) ==
    LET closed == ensure_closed(poly_xy, eps)
        poly   == closed.value
        Collect[i \in 0..(Len(poly) - 1)] ==
            IF i = 0 THEN <<>>
            ELSE IF /\ ~EdgeHorizontal(poly[i], poly[i + 1], eps)
                    /\ EdgeCrosses(poly[i], poly[i + 1], y)
                 THEN Append(Collect[i - 1], EdgeX(poly[i], poly[i + 1], y))
                 ELSE Collect[i - 1]
    IN  IF closed.status = "raised" THEN closed
        ELSE [status |-> "returned",
              value |-> SortSeq(Collect[Len(poly) - 1], LAMBDA a, b : a < b)]

\* variant: every consecutive pair of x values becomes a segment
even_odd_segments_sliding(x_positions, y, min_seg_len) ==
    LET Collect[i \in 0..Max(0, Len(x_positions) - 1)] ==
            IF i = 0 THEN <<>>
            ELSE IF (x_positions[i + 1] - x_positions[i]) * 10 >= min_seg_len
                 THEN Append(Collect[i - 1],
                             <<<<x_positions[i], y>>, <<x_positions[i + 1], y>>>>)
                 ELSE Collect[i - 1]
    IN  Collect[Max(0, Len(x_positions) - 1)]

\* pairs (xs[0], xs[1]), (xs[2], xs[3]), ...; an unmatched last value is
\* dropped; min_seg_len is given in units of 1/1000 mm
even_odd_segments(x_positions, y, min_seg_len) ==
    LET Collect[i \in 0..(Len(x_positions) \div 2)] ==
            IF i = 0 THEN <<>>
            ELSE IF (x_positions[2 * i] - x_positions[2 * i - 1]) * 10 >= min_seg_len
                 THEN Append(Collect[i - 1],
                             <<<<x_positions[2 * i - 1], y>>, <<x_positions[2 * i], y>>>>)
                 ELSE Collect[i - 1]
    IN  Collect[Len(x_positions) \div 2]

\* ---- calls of the scanline engine ----
ScCoords == {70 * Mm, 105 * Mm, 140 * Mm}

ScSquare == <<<<70 * Mm, 70 * Mm>>, <<140 * Mm, 70 * Mm>>,
              <<140 * Mm, 140 * Mm>>, <<70 * Mm, 140 * Mm>>>>

\* make_concave(cx=105, cy=105, s=12)
ScConcave == <<<<81 * Mm, 81 * Mm>>, <<105 * Mm, 81 * Mm>>,
               <<105 * Mm, 93 * Mm>>, <<129 * Mm, 105 * Mm>>,
               <<105 * Mm, 117 * Mm>>, <<105 * Mm, 129 * Mm>>,
               <<81 * Mm, 129 * Mm>>, <<93 * Mm, 105 * Mm>>>>

ScPolygons ==
    [1..3 -> ScCoords \X ScCoords]
        \cup {ScSquare, Append(ScSquare, ScSquare[1]), ScConcave}

ScHeights == {70 * Mm, 100 * Mm, 105 * Mm, 140 * Mm}

EoCoords == {70 * Mm, 90 * Mm, 90 * Mm + 1, 110 * Mm, 130 * Mm}

\* sorted lists of at most four x values
EoLists ==
    {xs \in UNION {[1..n -> EoCoords] : n \in 0..4} :
        \A i \in 1..(Len(xs) - 1) : xs[i] <= xs[i + 1]}

\* 1e-3 (the default), 0.3 (lec6 main) and 20 mm, in units of 1/1000 mm
EoMinLens == {1, 300, 20000}

ScanlineInit ==
    /\ \/ \E poly \in ScPolygons, y \in ScHeights :
             call = [fn |-> "scanline_x_intersections", poly_xy |-> poly, y |-> y, eps |-> 1]
       \/ \E xs \in EoLists, m \in EoMinLens :
             call = [fn |-> "even_odd_segments", x_positions |-> xs,
                     y |-> 100 * Mm, min_seg_len |-> m]
    /\ ret = NoRet
    /\ LgIdle /\ DrvIdle /\ SpIdle /\ WgIdle

ScanlineCall ==
    /\ call.fn = "scanline_x_intersections"
    /\ ret = NoRet
    /\ ret' = scanline_x_intersections(call.poly_xy, call.y, call.eps)
    /\ UNCHANGED call

EvenOddCall ==
    /\ call.fn = "even_odd_segments"
    /\ ret = NoRet
    /\ ret' = [status |-> "returned",
               value |-> even_odd_segments(call.x_positions, call.y, call.min_seg_len)]
    /\ UNCHANGED call

ScanlineNext ==
    \/ ScanlineCall /\ UNCHANGED <<lgVars, drvVars, spVars, wgVars>>
    \/ EvenOddCall /\ UNCHANGED <<lgVars, drvVars, spVars, wgVars>>

SpecScanline == ScanlineInit /\ [][ScanlineNext]_vars

ScanlineDone == call.fn = "scanline_x_intersections" /\ ret # NoRet

EvenOddDone == call.fn = "even_odd_segments" /\ ret # NoRet

\* the edges of the closed polygon: consecutive vertices, and the last vertex
\* back to the first when the polygon is given open
ClosedEdges(poly) ==
    {<<poly[i], poly[i + 1]>> : i \in 1..(Len(poly) - 1)}
        \cup (IF poly[Len(poly)] = poly[1] THEN {} ELSE {<<poly[Len(poly)], poly[1]>>})

\* the indices of the closed polygon's edges the line y crosses
CrossedEdges(poly, y) ==
    {i \in 1..Len(poly) :
        LET p0 == poly[i]
            p1 == poly[(i % Len(poly)) + 1]
        IN  /\ (i = Len(poly) => poly[Len(poly)] # poly[1])
            /\ p0[2] # p1[2]
            /\ Min(p0[2], p1[2]) <= y
            /\ y < Max(p0[2], p1[2])}

\* x is the point of the line through p0 and p1 at height y, to the nearest
\* 1/100 mm
OnEdgeAt(p0, p1, y, x) ==
    LET d    == Abs(p1[2] - p0[2])
        num  == IF p1[2] > p0[2] THEN (y - p0[2]) * (p1[1] - p0[1])
                ELSE (p0[2] - y) * (p1[1] - p0[1])
        diff == 2 * num - 2 * d * (x - p0[1])
    IN  -d <= diff /\ diff < d

\* C11: scanline_x_intersections returns, sorted ascending, exactly one x for
\* each edge of the closed polygon with min(p0.y, p1.y) <= y < max(p0.y, p1.y),
\* the x of that edge at height y, and none for horizontal edges; the square
\* (70,70)-(140,140) at y = 105 gives [70, 140].
C11_ScanlineIntersections ==
    ScanlineDone =>
        LET poly    == call.poly_xy
            y       == call.y
            xs      == ret.value
            crossed == CrossedEdges(poly, y)
        IN  /\ ret.status = "returned"
            /\ \A i \in 1..(Len(xs) - 1) : xs[i] <= xs[i + 1]
            /\ Len(xs) = Cardinality(crossed)
            /\ \A x \in {xs[i] : i \in 1..Len(xs)} \cup ScCoords :
                   Cardinality({i \in 1..Len(xs) : xs[i] = x})
                     = Cardinality({i \in crossed :
                           OnEdgeAt(poly[i], poly[(i % Len(poly)) + 1], y, x)})
            /\ (poly \in {ScSquare, Append(ScSquare, ScSquare[1])} /\ y = 105 * Mm
                  => xs = <<70 * Mm, 140 * Mm>>)

\* the square of the example was scanned at y = 105, and a scanline through a
\* vertex shared by two crossing-capable edges produced a single x for it
C11_Witness ==
    /\ ScanlineDone
    /\ \/ call.poly_xy = ScSquare /\ call.y = 105 * Mm
          /\ ret.value = <<70 * Mm, 140 * Mm>>
       \/ call.poly_xy = ScConcave /\ call.y = 105 * Mm
          /\ ret.value = <<93 * Mm, 129 * Mm>>

\* the pairs (xs[2i-1], xs[2i]) at least min_seg_len long
KeptPairs(xs, min_seg_len) ==
    {i \in 1..(Len(xs) \div 2) : (xs[2 * i] - xs[2 * i - 1]) * 10 >= min_seg_len}

\* C12: even_odd_segments pairs the sorted x values as (xs[0], xs[1]),
\* (xs[2], xs[3]), ... and returns, left to right, one segment
\* ((x_start, y), (x_end, y)) per pair at least min_seg_len long, discarding
\* shorter pairs; [70, 90, 110, 130] at y = 100 yields 70-90 and 110-130.
C12_EvenOddSegments ==
    EvenOddDone =>
        LET xs   == call.x_positions
            y    == call.y
            segs == ret.value
            kept == KeptPairs(xs, call.min_seg_len)
        IN  /\ Len(segs) = Cardinality(kept)
            /\ \A i \in kept :
                   segs[Cardinality({k \in kept : k <= i})]
                     = <<<<xs[2 * i - 1], y>>, <<xs[2 * i], y>>>>
            /\ (xs = <<70 * Mm, 90 * Mm, 110 * Mm, 130 * Mm>>
                  /\ call.min_seg_len = 1
                  => segs = << <<<<70 * Mm, y>>, <<90 * Mm, y>>>>,
                               <<<<110 * Mm, y>>, <<130 * Mm, y>>>> >>)

\* the example list gave its two segments, and a list with a pair shorter than
\* min_seg_len lost that pair
C12_Witness ==
    /\ EvenOddDone
    /\ \/ /\ call.x_positions = <<70 * Mm, 90 * Mm, 110 * Mm, 130 * Mm>>
          /\ Len(ret.value) = 2
       \/ /\ call.x_positions = <<70 * Mm, 90 * Mm, 90 * Mm + 1, 110 * Mm>>
          /\ call.min_seg_len = 20000
          /\ Len(ret.value) = 1

(***************************************************************************)
(* utility/helpers_gcode.py: write_perimeter and write_polyline.  Points   *)
(* are <<x, y>> and z in 1/1000 mm; the callable delta_E_for_move is the   *)
(* one of part3_gcode.py.                                                  *)
(***************************************************************************)
\* math.sqrt(dx * dx + dy * dy) of the segment from p to q
PlanarLength(p, q) ==
    ISqrt((q[1] - p[1]) * (q[1] - p[1]) + (q[2] - p[2]) * (q[2] - p[2]))

\* the print move of lines 102 and 143
PrintMove(q, z, dE, F_print) ==
    G1Line(<< <<"X", Fmt3(q[1])>>, <<"Y", Fmt3(q[2])>>, <<"Z", Fmt3(z)>>,
              <<"E", Fmt5(dE)>>, <<"F", ToString(F_print)>> >>, "")

\* the loop of write_perimeter over the closed polygon: <<g, E_total>>
PerimeterLoop(poly, z, F_print, line_width, layer_h, filament_d, flow_mult, g0) ==
    LET Step[i \in 1..Len(poly)] ==
            IF i = 1 THEN <<g0, 0>>
            ELSE LET L  == PlanarLength(poly[i - 1], poly[i])
                     dE == delta_E_for_move(L, line_width, layer_h, filament_d, flow_mult)
                 IN  IF dE <= 0 THEN Step[i - 1]
                     ELSE <<Append(Step[i - 1][1], PrintMove(poly[i], z, dE, F_print)),
                            Step[i - 1][2] + dE>>
    IN  Step[Len(poly)]

write_perimeter(poly_xy, z, F_travel, F_print, line_width, layer_h, filament_d, flow_mult) ==
    LET closed == ensure_closed(poly_xy, 1)
        poly   == closed.value
        g0     == << G1Line(<< <<"Z", Fmt3(z)>>, <<"F", "900">> >>, ""),
                     G1Line(<< <<"X", Fmt3(poly[1][1])>>, <<"Y", Fmt3(poly[1][2])>>,
                               <<"F", ToString(F_travel)>> >>, ""),
                     Raw("; --- PERIMETER ---") >>
    IN  IF closed.status = "raised" THEN closed
        ELSE [status |-> "returned",
              value |-> PerimeterLoop(poly, z, F_print, line_width, layer_h,
                                      filament_d, flow_mult, g0)]

\* variant: the total starts from E0 instead of 0.0
write_polyline_from_E0(path_xy, z, E0, F_travel, F_print, line_width, layer_h, filament_d, flow_mult) ==
    LET g0 == << G1Line(<< <<"X", Fmt3(path_xy[1][1])>>, <<"Y", Fmt3(path_xy[1][2])>>,
                           <<"Z", Fmt3(z)>>, <<"F", ToString(F_travel)>> >>, "") >>
        Step[i \in 1..Len(path_xy)] ==
            IF i = 1 THEN <<g0, E0>>
            ELSE LET L  == PlanarLength(path_xy[i - 1], path_xy[i])
                     dE == delta_E_for_move(L, line_width, layer_h, filament_d, flow_mult)
                 IN  IF L <= 0 THEN Step[i - 1]
                     ELSE IF dE <= 0 THEN Step[i - 1]
                     ELSE <<Append(Step[i - 1][1], PrintMove(path_xy[i], z, dE, F_print)),
                            Step[i - 1][2] + dE>>
    IN  IF path_xy = <<>> THEN Raise("IndexError", <<"index 0 is out of bounds">>)
        ELSE [status |-> "returned", value |-> Step[Len(path_xy)]]

\* variant: a segment without filament still writes its move
write_polyline_no_skip(path_xy, z, E0, F_travel, F_print, line_width, layer_h, filament_d, flow_mult) ==
    LET g0 == << G1Line(<< <<"X", Fmt3(path_xy[1][1])>>, <<"Y", Fmt3(path_xy[1][2])>>,
                           <<"Z", Fmt3(z)>>, <<"F", ToString(F_travel)>> >>, "") >>
        Step[i \in 1..Len(path_xy)] ==
            IF i = 1 THEN <<g0, 0>>
            ELSE LET L  == PlanarLength(path_xy[i - 1], path_xy[i])
                     dE == delta_E_for_move(L, line_width, layer_h, filament_d, flow_mult)
                 IN  <<Append(Step[i - 1][1], PrintMove(path_xy[i], z, dE, F_print)),
                       Step[i - 1][2] + dE>>
    IN  IF path_xy = <<>> THEN Raise("IndexError", <<"index 0 is out of bounds">>)
        ELSE [status |-> "returned", value |-> Step[Len(path_xy)]]

\* E0 is ignored; L <= 1e-9 mm is L = 0 on the 1/1000 mm grid
write_polyline(path_xy, z, E0, F_travel, F_print, line_width, layer_h, filament_d, flow_mult) ==
    LET g0 == << G1Line(<< <<"X", Fmt3(path_xy[1][1])>>, <<"Y", Fmt3(path_xy[1][2])>>,
                           <<"Z", Fmt3(z)>>, <<"F", ToString(F_travel)>> >>, "") >>
        Step[i \in 1..Len(path_xy)] ==
            IF i = 1 THEN <<g0, 0>>
            ELSE LET L  == PlanarLength(path_xy[i - 1], path_xy[i])
                     dE == delta_E_for_move(L, line_width, layer_h, filament_d, flow_mult)
                 IN  IF L <= 0 THEN Step[i - 1]
                     ELSE IF dE <= 0 THEN Step[i - 1]
                     ELSE <<Append(Step[i - 1][1], PrintMove(path_xy[i], z, dE, F_print)),
                            Step[i - 1][2] + dE>>
    IN  IF path_xy = <<>> THEN Raise("IndexError", <<"index 0 is out of bounds">>)
        ELSE [status |-> "returned", value |-> Step[Len(path_xy)]]

\* ---- lec7/utility/helpers_gcode.py: emit_perimeter and emit_polyline ----
\* line 62 calls segment_length, a name the module neither defines nor
\* imports: the first pass of the loop raises NameError, and the closed
\* polygon has at least three points, so the loop is always entered
emit_perimeter(poly_xy, z, F_travel, F_print, line_width, layer_h, filament_d, flow_mult) ==
    LET closed == ensure_closed(poly_xy, 1)
    IN  IF closed.status = "raised" THEN closed
        ELSE Raise("NameError", <<"name 'segment_length' is not defined">>)

emit_polyline(path_xy, z, E0, F_travel, F_print, line_width, layer_h, filament_d, flow_mult) ==
    LET g0 == << G1Line(<< <<"X", Fmt3(path_xy[1][1])>>, <<"Y", Fmt3(path_xy[1][2])>>,
                           <<"Z", Fmt3(z)>>, <<"F", ToString(F_travel)>> >>, "") >>
        Step[i \in 1..Len(path_xy)] ==
            IF i = 1 THEN <<g0, 0>>
            ELSE LET L  == PlanarLength(path_xy[i - 1], path_xy[i])
                     dE == delta_E_for_move(L, line_width, layer_h, filament_d, flow_mult)
                 IN  IF L <= 0 THEN Step[i - 1]
                     ELSE IF dE <= 0 THEN Step[i - 1]
                     ELSE <<Append(Step[i - 1][1], PrintMove(path_xy[i], z, dE, F_print)),
                            Step[i - 1][2] + dE>>
    IN  IF path_xy = <<>> THEN Raise("IndexError", <<"index 0 is out of bounds">>)
        ELSE [status |-> "returned", value |-> Step[Len(path_xy)]]

\* ---- calls of the writers ----
HwPoints == {<<90000, 90000>>, <<110000, 90000>>, <<110000, 110000>>, <<90001, 90000>>}

MaxPolyLen == 4

HwPaths == UNION {[1..n -> HwPoints] : n \in 1..MaxPolyLen}

\* flow_mult in percent: the default and a closed nozzle
HwFlows == {0, 100}

\* E0 of write_polyline, in 1/100000 mm
HwStartE == {0, 1234567}

HelpersInit ==
    /\ \E fn \in {"write_perimeter", "write_polyline", "emit_perimeter", "emit_polyline"},
          path \in HwPaths, z \in {200, 400}, flow \in HwFlows, E0 \in HwStartE :
          call = [fn |-> fn, path_xy |-> path, z |-> z,
                  E0 |-> IF fn \in {"write_polyline", "emit_polyline"} THEN E0 ELSE 0,
                  F_travel |-> 6000, F_print |-> 1500, line_width |-> 48,
                  layer_h |-> 20, filament_d |-> FILAMENT_DIAMETER, flow_mult |-> flow]
    /\ ret = NoRet
    /\ LgIdle /\ DrvIdle /\ SpIdle /\ WgIdle

WritePerimeterCall ==
    /\ call.fn = "write_perimeter"
    /\ ret = NoRet
    /\ ret' = write_perimeter(call.path_xy, call.z, call.F_travel, call.F_print,
                              call.line_width, call.layer_h, call.filament_d, call.flow_mult)
    /\ UNCHANGED call

WritePolylineCall ==
    /\ call.fn = "write_polyline"
    /\ ret = NoRet
    /\ ret' = write_polyline(call.path_xy, call.z, call.E0, call.F_travel, call.F_print,
                             call.line_width, call.layer_h, call.filament_d, call.flow_mult)
    /\ UNCHANGED call

EmitPerimeterCall ==
    /\ call.fn = "emit_perimeter"
    /\ ret = NoRet
    /\ ret' = emit_perimeter(call.path_xy, call.z, call.F_travel, call.F_print,
                             call.line_width, call.layer_h, call.filament_d, call.flow_mult)
    /\ UNCHANGED call

EmitPolylineCall ==
    /\ call.fn = "emit_polyline"
    /\ ret = NoRet
    /\ ret' = emit_polyline(call.path_xy, call.z, call.E0, call.F_travel, call.F_print,
                            call.line_width, call.layer_h, call.filament_d, call.flow_mult)
    /\ UNCHANGED call

HelpersNext ==
    \/ WritePerimeterCall /\ UNCHANGED <<lgVars, drvVars, spVars, wgVars>>
    \/ WritePolylineCall /\ UNCHANGED <<lgVars, drvVars, spVars, wgVars>>
    \/ EmitPerimeterCall /\ UNCHANGED <<lgVars, drvVars, spVars, wgVars>>
    \/ EmitPolylineCall /\ UNCHANGED <<lgVars, drvVars, spVars, wgVars>>

SpecHelpers == HelpersInit /\ [][HelpersNext]_vars

WriterReturned ==
    /\ call.fn \in {"write_perimeter", "write_polyline"}
    /\ ret # NoRet
    /\ ret.status = "returned"

\* the points the writer visits: the polyline as given, the perimeter closed
VisitedPath(c) ==
    IF c.fn = "write_perimeter" /\ c.path_xy[Len(c.path_xy)] # c.path_xy[1]
    THEN Append(c.path_xy, c.path_xy[1])
    ELSE c.path_xy

\* filament of the segment ending at point i of the visited path
VisitDeltaE(c, i) ==
    delta_E_for_move(PlanarLength(VisitedPath(c)[i - 1], VisitedPath(c)[i]),
                     c.line_width, c.layer_h, c.filament_d, c.flow_mult)

\* C13: in the output of write_perimeter and write_polyline the moves to the
\* first point carry no E field, every later G1 line is the deposit move of one
\* segment with E equal to that segment's positive dE, and a segment with
\* dE <= 0 (or of zero length) writes no line.
C13_TravelAndDepositMoves ==
    WriterReturned =>
        LET c     == call
            g     == ret.value[1]
            path  == VisitedPath(c)
            lead  == IF c.fn = "write_perimeter" THEN 3 ELSE 1
            ext   == {i \in 2..Len(path) : VisitDeltaE(c, i) > 0}
        IN  /\ Len(g) = lead + Cardinality(ext)
            /\ \A k \in 1..lead : \A w \in 1..Len(g[k].words) : g[k].words[w][1] # "E"
            /\ \E k \in 1..lead :
                   /\ g[k].words # <<>>
                   /\ g[k].words[1] = <<"X", Fmt3(path[1][1])>>
                   /\ g[k].words[2] = <<"Y", Fmt3(path[1][2])>>
            /\ \A i \in ext :
                   LET move == g[lead + Cardinality({j \in ext : j <= i})]
                   IN  /\ Letters(move) = <<"X", "Y", "Z", "E", "F">>
                       /\ move.words[1][2] = Fmt3(path[i][1])
                       /\ move.words[2][2] = Fmt3(path[i][2])
                       /\ move.words[4][2] = Fmt5(VisitDeltaE(c, i))
                       /\ move.words[4][2] # "0.00000"
            /\ ret.value[2] >= 0

\* both writers have written a path with a deposit move and a skipped segment
C13_Witness ==
    /\ WriterReturned
    /\ call.flow_mult = 100
    /\ Len(VisitedPath(call)) = 4
    /\ Cardinality({i \in 2..4 : VisitDeltaE(call, i) > 0}) = 2
    /\ Len(ret.value[1]) = (IF call.fn = "write_perimeter" THEN 5 ELSE 3)

(***************************************************************************)
(* The machine commands of the preamble and of the footer                  *)
(***************************************************************************)
\* the part of a line before its comment, without trailing blanks
Statement(text) ==
    LET Cut[k \in 0..Len(text)] ==
            IF k = Len(text) THEN k
            ELSE IF SubSeq(text, k + 1, k + 1) = ";" THEN k
            ELSE Cut[k + 1]
        Trim[k \in 0..Len(text)] ==
            IF k = 0 THEN 0
            ELSE IF SubSeq(text, k, k) = " " THEN Trim[k - 1]
            ELSE k
    IN  SubSeq(text, 1, Trim[Cut[0]])

\* the command word of a statement: its text up to the first blank
CommandWord(stmt) ==
    LET Scan[k \in 0..Len(stmt)] ==
            IF k = Len(stmt) THEN k
            ELSE IF SubSeq(stmt, k + 1, k + 1) = " " THEN k
            ELSE Scan[k + 1]
    IN  SubSeq(stmt, 1, Scan[0])

\* the statements of the lines that are neither empty nor comments, in order
Statements(gcode_lines) ==
    LET Collect[k \in 0..Len(gcode_lines)] ==
            IF k = 0 THEN <<>>
            ELSE IF Statement(gcode_lines[k].text) = "" THEN Collect[k - 1]
            ELSE Append(Collect[k - 1], Statement(gcode_lines[k].text))
    IN  Collect[Len(gcode_lines)]

\* the positions of a statement in a list of statements
Positions(stmts, stmt) == {k \in 1..Len(stmts) : stmts[k] = stmt}

\* temperatures the preamble is called with; 215 and 60 are the defaults
NozzleTemps == {190, 200, 205, 210, 215, 220, 230, 240, 250, 260}

BedTemps == {0, 50, 55, 60, 70, 80, 100}

PreambleInit ==
    /\ \/ \E n \in NozzleTemps, b \in BedTemps :
             call = [fn |-> "start_gcode_minimal", nozzle_temp |-> n, bed_temp |-> b]
       \/ call = [fn |-> "end_gcode_minimal"]
    /\ ret = NoRet
    /\ LgIdle /\ DrvIdle /\ SpIdle /\ WgIdle

StartGcodeCall ==
    /\ call.fn = "start_gcode_minimal"
    /\ ret = NoRet
    /\ ret' = [status |-> "returned",
               value |-> start_gcode_minimal(call.nozzle_temp, call.bed_temp)]
    /\ UNCHANGED call

EndGcodeCall ==
    /\ call.fn = "end_gcode_minimal"
    /\ ret = NoRet
    /\ ret' = [status |-> "returned", value |-> end_gcode_minimal]
    /\ UNCHANGED call

PreambleNext ==
    \/ StartGcodeCall /\ UNCHANGED <<lgVars, drvVars, spVars, wgVars>>
    \/ EndGcodeCall /\ UNCHANGED <<lgVars, drvVars, spVars, wgVars>>

SpecPreamble == PreambleInit /\ [][PreambleNext]_vars

StartGcodeDone == call.fn = "start_gcode_minimal" /\ ret # NoRet

EndGcodeDone == call.fn = "end_gcode_minimal" /\ ret # NoRet

\* C14: the start preamble sets G21, G90 and M83 before any other machine
\* command, sets and waits for the bed and nozzle temperatures, homes (G28)
\* before the final wait for the printing temperature, ends with G92 E0 and
\* contains no G1 move.
C14_PreambleOrder ==
    StartGcodeDone =>
        LET cmds   == Statements(ret.value)
            nozzle == ToString(call.nozzle_temp)
            bed    == ToString(call.bed_temp)
            waits  == {k \in 1..Len(cmds) : CommandWord(cmds[k]) = "M109"}
            final  == CHOOSE k \in waits : \A j \in waits : j <= k
        IN  /\ Len(cmds) > 3
            /\ {cmds[1], cmds[2], cmds[3]} = {"G21", "G90", "M83"}
            /\ \E s \in Positions(cmds, "M140 S" \o bed) :
                   \E w \in Positions(cmds, "M190 S" \o bed) : s < w
            /\ \E s \in Positions(cmds, "M104 S" \o nozzle) :
                   \E w \in Positions(cmds, "M109 S" \o nozzle) : s < w
            /\ waits # {}
            /\ cmds[final] = "M109 S" \o nozzle
            /\ Positions(cmds, "G28") # {}
            /\ \A h \in Positions(cmds, "G28") : h < final
            /\ cmds[Len(cmds)] = "G92 E0"
            /\ \A k \in 1..Len(cmds) : CommandWord(cmds[k]) # "G1"

\* the preamble was produced for a nozzle and a bed temperature other than the
\* defaults, and its thirteen machine commands were read back
C14_Witness ==
    /\ StartGcodeDone
    /\ call.nozzle_temp = 240
    /\ call.bed_temp = 80
    /\ Len(Statements(ret.value)) = 13
    /\ Statements(ret.value)[7] = "M104 S240"

\* positioning mode after the commands: G91 selects relative, G90 absolute
ModeAfter(cmds) ==
    LET Run[k \in 0..Len(cmds)] ==
            IF k = 0 THEN "absolute"
            ELSE IF cmds[k] = "G91" THEN "relative"
            ELSE IF cmds[k] = "G90" THEN "absolute"
            ELSE Run[k - 1]
    IN  [k \in 0..Len(cmds) |-> Run[k]]

\* C15: the shutdown footer emits, in this order, the extruder reset, hotend
\* and bed heaters off, a retract and a Z raise under relative positioning
\* (G91), the return to absolute positioning (G90) and motor disable (M84) as
\* the last command; the machine is left in absolute positioning, heaters off.
C15_FooterOrder ==
    EndGcodeDone =>
        LET cmds == Statements(ret.value)
            mode == ModeAfter(cmds)
            At(stmt) == CHOOSE k \in Positions(cmds, stmt) : TRUE
        IN  /\ \A stmt \in {"G92 E0", "M104 S0", "M140 S0", "G91", "G1 E-2 F2700",
                            "G1 Z10 F900", "G90", "M84"} :
                   Cardinality(Positions(cmds, stmt)) = 1
            /\ At("G92 E0") < At("M104 S0")
            /\ At("M104 S0") < At("M140 S0")
            /\ At("M140 S0") < At("G91")
            /\ At("G91") < At("G1 E-2 F2700")
            /\ At("G1 E-2 F2700") < At("G1 Z10 F900")
            /\ At("G1 Z10 F900") < At("G90")
            /\ At("G90") < At("M84")
            /\ At("M84") = Len(cmds)
            /\ \A k \in 1..Len(cmds) :
                   CommandWord(cmds[k]) = "G1" => mode[k] = "relative"
            /\ mode[Len(cmds)] = "absolute"
            /\ \A k \in 1..Len(cmds) :
                   CommandWord(cmds[k]) \in {"M104", "M140", "M109", "M190"}
                       => cmds[k] \in {"M104 S0", "M140 S0"}

\* the footer was produced and its nine machine commands were read back
C15_Witness ==
    /\ EndGcodeDone
    /\ Len(Statements(ret.value)) = 9
    /\ Statements(ret.value)[9] = "M84"

(***************************************************************************)
(* Reading a written G-code file back: lines, fields and decimal values    *)
(***************************************************************************)
\* the positions of a character in a text
CharPositions(text, ch) == {k \in 1..Len(text) : SubSeq(text, k, k) = ch}

\* the pieces of a text between the separators at positions seps; the text
\* after the last separator is a piece when it is not empty
PiecesAt(text, seps) ==
    LET N        == Cardinality(seps)
        End[i \in 1..N] == CHOOSE q \in seps : Cardinality({r \in seps : r < q}) = i - 1
        Start[i \in 1..(N + 1)] == IF i = 1 THEN 1 ELSE End[i - 1] + 1
        pieces   == [i \in 1..N |-> SubSeq(text, Start[i], End[i] - 1)]
    IN  IF Start[N + 1] <= Len(text)
        THEN Append(pieces, SubSeq(text, Start[N + 1], Len(text)))
        ELSE pieces

Split(text, ch) ==
    CHOOSE r \in {PiecesAt(text, seps) : seps \in {CharPositions(text, ch)}} : TRUE

DigitValue(ch) ==
    CASE ch = "0" -> 0 [] ch = "1" -> 1 [] ch = "2" -> 2 [] ch = "3" -> 3
      [] ch = "4" -> 4 [] ch = "5" -> 5 [] ch = "6" -> 6 [] ch = "7" -> 7
      [] ch = "8" -> 8 [] ch = "9" -> 9

\* int(text) of a string of digits
ParseNat(text) ==
    LET V[k \in 0..Len(text)] ==
            IF k = 0 THEN 0 ELSE V[k - 1] * 10 + DigitValue(SubSeq(text, k, k))
    IN  V[Len(text)]

Pow10(k) == [i \in 0..5 |-> CASE i = 0 -> 1 [] i = 1 -> 10 [] i = 2 -> 100 [] i = 3 -> 1000
                              [] i = 4 -> 10000 [] i = 5 -> 100000][k]

\* float(text), held as an integer in units of 10^-d
ParseDecimal(text, d) ==
    LET neg   == SubSeq(text, 1, 1) = "-"
        num   == IF neg THEN SubSeq(text, 2, Len(text)) ELSE text
        parts == Split(num, ".")
        whole == ParseNat(parts[1]) * Pow10(d)
        frac  == IF Len(parts) < 2 THEN 0
                 ELSE ParseNat(parts[2]) * Pow10(d - Len(parts[2]))
    IN  IF neg THEN -(whole + frac) ELSE whole + frac

\* the value of the field with the given letter among the tokens of a
\* statement, in units of 10^-d, or None when the field is absent
FieldValue(tokens, letter, d) ==
    LET at == {k \in 2..Len(tokens) : SubSeq(tokens[k], 1, 1) = letter}
    IN  IF at = {} THEN None
        ELSE LET k == CHOOSE j \in at : TRUE
             IN  <<ParseDecimal(SubSeq(tokens[k], 2, Len(tokens[k])), d)>>

\* one G1 statement as [x, y, z, e]: coordinates in 1/1000 mm, e in 1/100000 mm
ParseMove(stmt) ==
    CHOOSE r \in {[x |-> FieldValue(tokens, "X", 3), y |-> FieldValue(tokens, "Y", 3),
                   z |-> FieldValue(tokens, "Z", 3), e |-> FieldValue(tokens, "E", 5)]
                      : tokens \in {Split(stmt, " ")}} : TRUE

\* the machine commands of a file's text
StatementsOfText(content) ==
    CHOOSE r \in {Statements([k \in 1..Len(ls) |-> Raw(ls[k])])
                     : ls \in {Split(content, "\n")}} : TRUE

\* the G1 moves among stmts that run under absolute positioning, in order
MovesUnder(stmts, mode) ==
    LET Collect[k \in 0..Len(stmts)] ==
            IF k = 0 THEN <<>>
            ELSE IF CommandWord(stmts[k]) = "G1" /\ mode[k] = "absolute"
                 THEN Append(Collect[k - 1], ParseMove(stmts[k]))
                 ELSE Collect[k - 1]
    IN  Collect[Len(stmts)]

\* the toolpath moves of a file: the retract and the Z raise of the footer run
\* under relative positioning and are not toolpath moves
ParseMotion(content) ==
    CHOOSE r \in {MovesUnder(sm[1], sm[2])
                     : sm \in {<<stmts, ModeAfter(stmts)>>
                                  : stmts \in {StatementsOfText(content)}}} : TRUE

\* what the file must give back for toolpath point i: the point and the
\* filament of the segment that ends there
MoveOf(path, params, i) ==
    [x |-> <<path[i][1]>>, y |-> <<path[i][2]>>, z |-> <<path[i][3]>>,
     e |-> <<SegmentDeltaE(path[i - 1], path[i], params)>>]

\* the file opens the toolpath with the Z move and the XY travel to point 1
StartsAtFirstPoint(moves, path) ==
    /\ Len(moves) >= 2
    /\ moves[1] = [x |-> None, y |-> None, z |-> <<path[1][3]>>, e |-> None]
    /\ moves[2] = [x |-> <<path[1][1]>>, y |-> <<path[1][2]>>, z |-> None, e |-> None]

\* C16 as stated: parsing the motion commands of the written file gives back
\* (x, y, z, dE) for every toolpath point after the first, one entry per point.
C16_RoundTripEveryPoint ==
    WgReturned =>
        LET path  == wg_in.spiral_path
            moves == ParseMotion(wg_file[1])
        IN  /\ StartsAtFirstPoint(moves, path)
            /\ Len(moves) = 2 + (Len(path) - 1)
            /\ \A i \in 2..Len(path) : moves[i + 1] = MoveOf(path, wg_in.params, i)

\* C16 (amended): parsing the motion commands of the written file gives back,
\* in order, (x, y, z, dE) for every toolpath point whose segment has dE > 0,
\* exact to the printed precision; a segment with dE <= 0 has no entry.
C16_RoundTripExtruded ==
    WgReturned =>
        LET path  == wg_in.spiral_path
            moves == ParseMotion(wg_file[1])
            ext   == Extruding(path, wg_in.params)
        IN  /\ StartsAtFirstPoint(moves, path)
            /\ Len(moves) = 2 + Cardinality(ext)
            /\ \A i \in ext :
                   moves[2 + Cardinality({j \in ext : j <= i})]
                       = MoveOf(path, wg_in.params, i)

\* a three-point toolpath whose first segment has no filament (a repeated
\* point) was written, and the file's text holds the one extruded move
C16_Witness ==
    /\ WgReturned
    /\ Len(wg_in.spiral_path) = 3
    /\ wg_in.spiral_path[1] = wg_in.spiral_path[2]
    /\ Cardinality(Extruding(wg_in.spiral_path, wg_in.params)) = 1
    /\ Len(ParseMotion(wg_file[1])) = 3
    /\ ParseMotion(wg_file[1])[3].e # <<0>>

(***************************************************************************)
(* Calls of generate_lamp_shade_layer                                      *)
(***************************************************************************)
\* (base_radius, top_radius) pairs; the first is the one of the layer test
LyRadii == {<<3000, 3000>>, <<3000, 2500>>, <<1000, 4000>>}

LyHeights == {0, 1000, 2500, 5000}

\* the num_points argument: left out, or given
LyNumPoints == {None, <<12>>, <<16>>}

LayerInit ==
    /\ \E rr \in LyRadii, z \in LyHeights, pt \in ProfileTypes, np \in LyNumPoints,
          tw \in BOOLEAN, wv \in BOOLEAN :
          call = [fn |-> "generate_lamp_shade_layer", z |-> z, num_points |-> np,
                  params |-> [LampShadeParams EXCEPT
                                 !.base_radius = rr[1], !.top_radius = rr[2],
                                 !.total_height = 5000, !.num_points = 64,
                                 !.profile_type = pt,
                                 !.twist_enabled = tw, !.twist_degrees = 90,
                                 !.wave_enabled = wv, !.wave_amplitude = 200]]
    /\ ret = NoRet
    /\ LgIdle /\ DrvIdle /\ SpIdle /\ WgIdle

\* the number of samples the call asks for
LayerSamples(c) == IF c.num_points = None THEN c.params.num_points ELSE c.num_points[1]

\* ensure_closed raises on fewer than three vertices
LayerCall ==
    /\ call.fn = "generate_lamp_shade_layer"
    /\ ret = NoRet
    /\ ret' = IF LayerSamples(call) < 3
              THEN generate_lamp_shade_layer(call.z, call.params, call.num_points)
              ELSE [status |-> "returned",
                    value |-> generate_lamp_shade_layer(call.z, call.params, call.num_points)]
    /\ UNCHANGED call

LayerNext == LayerCall /\ UNCHANGED <<lgVars, drvVars, spVars, wgVars>>

SpecLayer == LayerInit /\ [][LayerNext]_vars

LayerDone == call.fn = "generate_lamp_shade_layer" /\ ret # NoRet

\* the point pt lies on the ray of direction angle (1/100 degree) from the bed
\* centre, at the given distance, up to the rounding of the grid
OnRayAt(pt, angle, radius) ==
    LET dx    == pt[1] - BED_CENTER[1]
        dy    == pt[2] - BED_CENTER[2]
        cos   == SinCentiDeg(angle + 9000)
        sin   == SinCentiDeg(angle)
        cross == dx * sin - dy * cos
        dot   == dx * cos + dy * sin
    IN  /\ Abs(cross) <= FracScale
        /\ Abs(DivRound(dot, FracScale) - radius) <= 2 + radius \div 1000

\* C17: generate_lamp_shade_layer returns num_points + 1 points; the first
\* num_points are sampled at the evenly spaced angles 360 * i / num_points,
\* i = 0 .. num_points - 1 (endpoint excluded, no angle sampled twice), and the
\* last point equals the first exactly.
C17_ClosedLayer ==
    LayerDone =>
        LET c     == call
            n     == LayerSamples(c)
            pts   == ret.value
            r     == lamp_shade_radius_at_height(c.z, c.params.base_radius,
                                                 c.params.top_radius,
                                                 c.params.total_height,
                                                 c.params.profile_type)
            twist == calculate_twist_angle(c.z, c.params)
        IN  /\ ret.status = "returned"
            /\ Len(pts) = n + 1
            /\ pts[n + 1] = pts[1]
            /\ \A i \in 1..n : \A j \in 1..n : i # j => pts[i] # pts[j]
            /\ \A i \in 1..n :
                   LET theta == DivRound(36000 * (i - 1), n)
                   IN  OnRayAt(pts[i], theta + twist,
                               r + calculate_radial_wave(theta, c.z, c.params))

\* the layer of the test (radius 30, z = 25, 64 points, num_points left out)
\* came back with 65 points, and a twisted, waved layer of 12 points with 13
C17_Witness ==
    /\ LayerDone
    /\ \/ /\ call.num_points = None
          /\ call.params.base_radius = 3000 /\ call.params.top_radius = 3000
          /\ call.z = 2500
          /\ Len(ret.value) = 65
       \/ /\ call.num_points = <<12>>
          /\ call.params.twist_enabled /\ call.params.wave_enabled
          /\ Len(ret.value) = 13

(***************************************************************************)
(* Calls of lamp_shade_radius_at_height                                    *)
(***************************************************************************)
RdBaseRadii == {0, 500, 1000, 3000, 8001}

RdTopRadii == {500, 2500, 3000, 10000}

RdTotalHeights == {0, 2, 1000, 5000}

\* heights below, inside, at the ends of and above [0, total_height]
RdHeights(total_height) ==
    {-1000, -1, 0, total_height \div 8, total_height \div 4, total_height \div 2,
     (5 * total_height) \div 8, total_height - 1, total_height, total_height + 1,
     total_height + total_height \div 2 + 1}

\* the four profiles and two unrecognized tags
RdProfileTypes == ProfileTypes \cup {"parabolic", ""}

RadiusInit ==
    /\ \E b \in RdBaseRadii, t \in RdTopRadii, h \in RdTotalHeights, pt \in RdProfileTypes :
          \E z \in RdHeights(h) :
             call = [fn |-> "lamp_shade_radius_at_height", z |-> z, base_radius |-> b,
                     top_radius |-> t, total_height |-> h, profile_type |-> pt]
    /\ ret = NoRet
    /\ LgIdle /\ DrvIdle /\ SpIdle /\ WgIdle

\* line 53 divides by total_height before any branch is taken
RadiusCall ==
    /\ call.fn = "lamp_shade_radius_at_height"
    /\ ret = NoRet
    /\ ret' = IF call.total_height = 0
              THEN Raise("ZeroDivisionError", <<"float division by zero">>)
              ELSE [status |-> "returned",
                    value |-> lamp_shade_radius_at_height(call.z, call.base_radius,
                                  call.top_radius, call.total_height, call.profile_type)]
    /\ UNCHANGED call

RadiusNext == RadiusCall /\ UNCHANGED <<lgVars, drvVars, spVars, wgVars>>

SpecRadius == RadiusInit /\ [][RadiusNext]_vars

RadiusDone == call.fn = "lamp_shade_radius_at_height" /\ ret # NoRet

RadiusReturned == RadiusDone /\ ret.status = "returned"

\* C18: for the linear profile and total_height > 0 the radius is base_radius
\* at z = 0, top_radius at z = total_height and (base_radius + top_radius) / 2
\* at z = total_height / 2 (to the nearest grid step).
C18_LinearEndpoints ==
    (RadiusDone /\ call.profile_type = "linear" /\ call.total_height > 0) =>
        /\ ret.status = "returned"
        /\ (call.z = 0 => ret.value = call.base_radius)
        /\ (call.z = call.total_height => ret.value = call.top_radius)
        /\ (2 * call.z = call.total_height
              => Abs(2 * ret.value - (call.base_radius + call.top_radius)) <= 1)

\* a linear profile with different radii was evaluated at mid height
C18_Witness ==
    /\ RadiusReturned
    /\ call.profile_type = "linear"
    /\ call.base_radius = 3000 /\ call.top_radius = 2500
    /\ call.total_height = 5000 /\ call.z = 2500
    /\ ret.value = 2750

\* what the call must return when nothing goes wrong: the base value below
\* z = 0, the top value above total_height, the linear result for a tag that
\* is not one of the four profiles
ClampAndFallback(c, value) ==
    /\ (c.z <= 0 => value = c.base_radius)
    /\ (c.z >= c.total_height => value = c.top_radius)
    /\ (c.profile_type \notin ProfileTypes
          => value = lamp_shade_radius_at_height(c.z, c.base_radius, c.top_radius,
                                                 c.total_height, "linear"))

\* C19 as stated: lamp_shade_radius_at_height has no error path; every call
\* returns, with t clamped into [0, 1] and unrecognized profile types treated
\* as linear.
C19_NoErrorPath ==
    RadiusDone => (ret.status = "returned" /\ ClampAndFallback(call, ret.value))

\* C19 (amended): for total_height > 0 every call returns, with t clamped into
\* [0, 1] (z < 0 gives the value at the base, z > total_height the value at
\* the top) and unrecognized profile types treated as linear; total_height = 0
\* raises ZeroDivisionError.
C19_NoErrorPathPositiveHeight ==
    RadiusDone =>
        IF call.total_height > 0
        THEN ret.status = "returned" /\ ClampAndFallback(call, ret.value)
        ELSE ret.status = "raised" /\ ret.kind = "ZeroDivisionError"

\* an unrecognized profile type was evaluated above the top of a tapering
\* shade and came back with the top radius
C19_Witness ==
    /\ RadiusReturned
    /\ call.profile_type = "parabolic"
    /\ call.z > call.total_height
    /\ call.base_radius = 3000 /\ call.top_radius = 2500
    /\ ret.value = 2500

\* C20: for every profile type and z in [0, total_height], total_height > 0,
\* the radius lies within [min(base, top) - A, max(base, top) + A] with A = 0
\* for linear, concave and convex and A = 0.05 * (base + top) / 2 for
\* sinusoidal (A is compared times 40, with one grid step of rounding).
C20_RadiusBounds ==
    (RadiusReturned /\ call.profile_type \in ProfileTypes
       /\ 0 <= call.z /\ call.z <= call.total_height) =>
        LET lo == Min(call.base_radius, call.top_radius)
            hi == Max(call.base_radius, call.top_radius)
        IN  IF call.profile_type = "sinusoidal"
            THEN /\ 40 * (lo - ret.value) <= call.base_radius + call.top_radius + 40
                 /\ 40 * (ret.value - hi) <= call.base_radius + call.top_radius + 40
            ELSE lo <= ret.value /\ ret.value <= hi

\* a sinusoidal profile was evaluated where its ripple carries it outside
\* [min(base, top), max(base, top)]
C20_Witness ==
    /\ RadiusReturned
    /\ call.profile_type = "sinusoidal"
    /\ 0 <= call.z /\ call.z <= call.total_height
    /\ ret.value > Max(call.base_radius, call.top_radius)

(***************************************************************************)
(* One call of delta_E_for_move on drawn arguments.  Lengths are in        *)
(* 1/1000 mm, widths, heights and diameters in 1/100 mm, flow_mult in      *)
(* percent, the result in 1/100000 mm.                                     *)
(***************************************************************************)
DeLengths == {0, 1000, 2000, 5000, 10000, 20000}

DeWidths == {40, 48}

DeHeights == {20, 30}

DeDiameters == {100, FILAMENT_DIAMETER}

DeFlows == {0, 50, 100, 110, 120}

ExtrusionInit ==
    /\ \E L \in DeLengths, w \in DeWidths, h \in DeHeights, d \in DeDiameters,
          flow \in DeFlows :
          call = [fn |-> "delta_E_for_move", L_mm |-> L, width_mm |-> w,
                  height_mm |-> h, filament_d_mm |-> d, flow_mult |-> flow]
    /\ ret = NoRet
    /\ LgIdle /\ DrvIdle /\ SpIdle /\ WgIdle

DeltaECall ==
    /\ call.fn = "delta_E_for_move"
    /\ ret = NoRet
    /\ ret' = [status |-> "returned",
               value |-> delta_E_for_move(call.L_mm, call.width_mm, call.height_mm,
                                          call.filament_d_mm, call.flow_mult)]
    /\ UNCHANGED call

ExtrusionNext == DeltaECall /\ UNCHANGED <<lgVars, drvVars, spVars, wgVars>>

SpecExtrusion == ExtrusionInit /\ [][ExtrusionNext]_vars

DeltaEDone == call.fn = "delta_E_for_move" /\ ret # NoRet

\* the result of the same move at flow_mult = 1.0
DeltaEAtUnitFlow(c) ==
    delta_E_for_move(c.L_mm, c.width_mm, c.height_mm, c.filament_d_mm, 100)

\* the result of a move of half the length
DeltaEAtHalfLength(c) ==
    delta_E_for_move(c.L_mm \div 2, c.width_mm, c.height_mm, c.filament_d_mm, c.flow_mult)

\* C21: delta_E_for_move returns flow * extruded_area(w, h) * L / (pi * (d/2)^2):
\* the result is flow times the result at flow 1.0 (1.1 times it at flow 1.1),
\* twice the result of a move of half the length (to the rounding of the
\* 1/100000 mm grid), 0 for a zero-length move, and between 0.3 and 0.6 mm for
\* a 10 mm move at 0.4 x 0.2 mm with 1.75 mm filament.
C21_DeltaEProportional ==
    DeltaEDone =>
        /\ ret.status = "returned"
        /\ 100 * ret.value = call.flow_mult * DeltaEAtUnitFlow(call)
        /\ Abs(ret.value - 2 * DeltaEAtHalfLength(call)) <= call.flow_mult \div 10 + 2
        /\ (call.L_mm = 0 => ret.value = 0)
        /\ (call.L_mm > 0 /\ call.flow_mult > 0 => ret.value > 0)
        /\ ( /\ call.L_mm = 10000 /\ call.width_mm = 40 /\ call.height_mm = 20
             /\ call.filament_d_mm = FILAMENT_DIAMETER /\ call.flow_mult = 100
             => ret.value > 30000 /\ ret.value < 60000 )

\* the standard 10 mm move was evaluated at flow 1.1
C21_Witness ==
    /\ DeltaEDone
    /\ call.L_mm = 10000 /\ call.width_mm = 40 /\ call.height_mm = 20
    /\ call.filament_d_mm = FILAMENT_DIAMETER /\ call.flow_mult = 110
    /\ ret.value > 0
    /\ 10 * ret.value = 11 * DeltaEAtUnitFlow(call)

(***************************************************************************)
(* part4_analysis.py: one call compare_profiles(profile_types,             *)
(* params_template) on drawn arguments, run by CompareIterate and          *)
(* CompareReturn; `call` keeps the arguments as they were passed.          *)
(***************************************************************************)
MaxProfiles == 3

CmpNames == {"linear", "concave", "sinusoidal", "stepped"}

CmpLists == UNION {[1..n -> CmpNames] : n \in 0..MaxProfiles}

\* a fresh LampShadeParams(), and params a toolpath call has been made on
CmpTemplates ==
    { LampShadeParams,
      [LampShadeParams EXCEPT !.profile_type = "convex", !.z_increment_per_point = <<50>>] }

CompareInit ==
    /\ \E types \in CmpLists, template \in CmpTemplates :
          /\ call = [fn |-> "compare_profiles", profile_types |-> types,
                     params_template |-> template]
          /\ cmp = CompareFrame(types, template, "returned")
    /\ ret = NoRet
    /\ drv_pc = "compare_profiles"
    /\ drv_arg = None
    /\ drv_params = None
    /\ drv_i = 0
    /\ drv_results = <<>>
    /\ drv_validated = {}
    /\ drv_generated = {}
    /\ LgIdle /\ SpIdle /\ WgIdle

CompareNext ==
    \/ CompareIterate /\ UNCHANGED <<callVars, lgVars, spVars, wgVars>>
    \/ CompareReturn /\ UNCHANGED <<callVars, lgVars, spVars, wgVars>>

SpecCompare == CompareInit /\ [][CompareNext]_vars

CompareCalled == call.fn = "compare_profiles" /\ cmp # None

\* how often `name` occurs as first component in a sequence of pairs
Occurrences(pairs, name) == Cardinality({k \in 1..Len(pairs) : pairs[k][1] = name})

\* the copy the iteration for `profile_type` starts from
FreshCopy(template, profile_type) ==
    [template EXCEPT !.profile_type = profile_type, !.z_increment_per_point = None]

\* C22: compare_profiles runs each profile type on its own copy of
\* params_template with z_increment_per_point reset to None and never modifies
\* params_template; a profile that fails is reported and the loop goes on, so
\* every profile is processed and is listed either as failed or in results, and
\* the table has one row for each profile whose pipeline completed, in order.
C22_CompareIsolation ==
    CompareCalled =>
        /\ cmp.params_template = call.params_template
        /\ cmp.profile_types = call.profile_types
        /\ cmp.i \in 1..(Len(call.profile_types) + 1)
        /\ Len(cmp.results) + Len(cmp.failed) = cmp.i - 1
        /\ \A name \in CmpNames :
              Occurrences(cmp.results, name) + Occurrences(cmp.failed, name)
                 = Occurrences([k \in 1..(cmp.i - 1) |-> <<call.profile_types[k]>>], name)
        /\ \A k \in 1..Len(cmp.results) :
              cmp.results[k][2] = FreshCopy(call.params_template, cmp.results[k][1])
        /\ (cmp.params # None =>
              LET fresh == FreshCopy(call.params_template, call.profile_types[cmp.i - 1])
              IN  cmp.params[1] \in
                    { fresh,
                      [fresh EXCEPT !.z_increment_per_point =
                          <<DivRound(fresh.layer_height * 10, fresh.num_points)>>] })
        /\ (cmp.table # None =>
              /\ cmp.i = Len(call.profile_types) + 1
              /\ Len(cmp.table[1]) = Len(call.profile_types) - Len(cmp.failed)
              /\ cmp.table[1] = [k \in 1..Len(cmp.results) |-> Capitalize(cmp.results[k][1])])

\* the first profile failed, two later ones completed and are the table's
\* rows, on a template that carried a stale increment
C22_Witness ==
    /\ CompareCalled
    /\ drv_pc = "returned"
    /\ call.params_template.z_increment_per_point = <<50>>
    /\ call.profile_types = <<"stepped", "linear", "sinusoidal">>
    /\ cmp.failed = << <<"stepped", "layers">> >>
    /\ cmp.table = << <<"Linear", "Sinusoidal">> >>

(***************************************************************************)
(* The parity of scanline_x_intersections: calls on closed polygons with   *)
(* the default eps (1e-9 mm) and with eps = 0.02 mm, on polygons that have *)
(* level edges, vertices on the scanline, and an edge that rises by less   *)
(* than eps.                                                               *)
(***************************************************************************)
\* eps in units of 1e-9 mm
ScEps == {1, 20000000}

\* a quadrilateral whose second edge rises by 0.01 mm
ScSliver == <<<<70 * Mm, 70 * Mm>>, <<140 * Mm, 70 * Mm>>,
              <<140 * Mm, 70 * Mm + 1>>, <<70 * Mm, 140 * Mm>>>>

ParityInit ==
    /\ \E poly \in ScPolygons \cup {ScSliver}, y \in ScHeights, eps \in ScEps :
          call = [fn |-> "scanline_x_intersections", poly_xy |-> poly, y |-> y, eps |-> eps]
    /\ ret = NoRet
    /\ LgIdle /\ DrvIdle /\ SpIdle /\ WgIdle

ParityNext == ScanlineCall /\ UNCHANGED <<lgVars, drvVars, spVars, wgVars>>

SpecParity == ParityInit /\ [][ParityNext]_vars

\* some edge of the closed polygon is not level but rises by less than eps
HasShallowEdge(poly, eps) ==
    \E e \in ClosedEdges(poly) : e[1][2] # e[2][2] /\ EdgeHorizontal(e[1], e[2], eps)

\* the scanline runs through a vertex or along a level edge
TouchesVertex(poly, y) == \E i \in 1..Len(poly) : poly[i][2] = y

\* C24 as stated: for every closed polygon and every scan height, also through
\* a vertex or along a horizontal edge, scanline_x_intersections returns an
\* even number of x values.
C24_EvenCount ==
    (ScanlineDone /\ ret.status = "returned") => Len(ret.value) % 2 = 0

\* C24 (amended): the number of x values is even for every closed polygon none
\* of whose edges rises by less than eps without being level, and every scan
\* height, also through a vertex or along a horizontal edge.
C24_EvenCountNoShallowEdge ==
    (ScanlineDone /\ ~HasShallowEdge(call.poly_xy, call.eps)) =>
        /\ ret.status = "returned"
        /\ Len(ret.value) % 2 = 0

\* the square was scanned along its bottom edge, through two vertices, and two
\* x values came back
C24_Witness ==
    /\ ScanlineDone
    /\ call.poly_xy = ScSquare /\ call.y = 70 * Mm
    /\ TouchesVertex(call.poly_xy, call.y)
    /\ ~HasShallowEdge(call.poly_xy, call.eps)
    /\ ret.value = <<70 * Mm, 140 * Mm>>

(***************************************************************************)
(* The extrusion total of write_perimeter and write_polyline               *)
(***************************************************************************)
\* the indices of the lines that carry an E field
ELines(g) == {k \in 1..Len(g) : \E w \in 1..Len(g[k].words) : g[k].words[w][1] = "E"}

\* the E value written on line k, in 1/100000 mm
EValue(line) ==
    LET w == CHOOSE j \in 1..Len(line.words) : line.words[j][1] = "E"
    IN  ParseDecimal(line.words[w][2], 5)

\* the sum of the E values written on the lines of g
SumOfE(g) ==
    LET Sum[k \in 0..Len(g)] ==
            IF k = 0 THEN 0
            ELSE Sum[k - 1] + (IF k \in ELines(g) THEN EValue(g[k]) ELSE 0)
    IN  Sum[Len(g)]

\* C25: write_perimeter and write_polyline return an E_total equal to the sum
\* of the dE of exactly the extrusion lines they wrote; the number of lines
\* with an E field is the number of segments with dE > 0 (and, for
\* write_polyline, of nonzero length); write_polyline's lines and total are
\* the same whatever E0 is.
C25_TotalIsSumOfLines ==
    WriterReturned =>
        LET c    == call
            g    == ret.value[1]
            path == VisitedPath(c)
            ext  == {i \in 2..Len(path) :
                        /\ VisitDeltaE(c, i) > 0
                        /\ (c.fn = "write_polyline" => path[i] # path[i - 1])}
        IN  /\ ret.value[2] = SumOfE(g)
            /\ Cardinality(ELines(g)) = Cardinality(ext)
            /\ (c.fn = "write_polyline" =>
                  ret = write_polyline(c.path_xy, c.z, 0, c.F_travel, c.F_print,
                                       c.line_width, c.layer_h, c.filament_d, c.flow_mult))

\* write_polyline was called with a nonzero E0 on a path with a repeated
\* point, and returned the filament of its two extrusion lines
C25_Witness ==
    /\ WriterReturned
    /\ call.fn = "write_polyline"
    /\ call.E0 > 0
    /\ Len(call.path_xy) = 4
    /\ call.path_xy[2] = call.path_xy[3]
    /\ Cardinality(ELines(ret.value[1])) = 2
    /\ ret.value[2] > 0
    /\ ret.value[2] = SumOfE(ret.value[1])

(***************************************************************************)
(* lec7's emit_perimeter and emit_polyline against assignment3's writers   *)
(***************************************************************************)
EmitDone == call.fn \in {"emit_perimeter", "emit_polyline"} /\ ret # NoRet

\* what assignment3's writer of the same kind gives on the arguments of c
Assignment3Result(c) ==
    IF c.fn = "emit_perimeter"
    THEN write_perimeter(c.path_xy, c.z, c.F_travel, c.F_print,
                         c.line_width, c.layer_h, c.filament_d, c.flow_mult)
    ELSE write_polyline(c.path_xy, c.z, c.E0, c.F_travel, c.F_print,
                        c.line_width, c.layer_h, c.filament_d, c.flow_mult)

\* C26: on the same inputs emit_perimeter and emit_polyline give the same
\* G-code lines and the same extrusion total as write_perimeter and
\* write_polyline.
C26_SameAsAssignment3 ==
    EmitDone => ret = Assignment3Result(call)

(***************************************************************************)
(* validate() followed by generate_lamp_shade_layers on the same           *)
(* parameters, as main and generate_all_profiles run them.                 *)
(***************************************************************************)
\* <<base_radius, top_radius>> in 1/100 mm: the defaults, the widest shade
\* the bed check lets through, and one it rejects
SfRadii == { <<3000, 2500>>, <<10500, 10500>>, <<10600, 2500>> }

SfHeights == { <<3, 1>>, <<80, 1>> }

\* <<wave_enabled, wave_amplitude>>
SfWaves == { <<FALSE, 0>>, <<TRUE, 200>>, <<TRUE, 20000>> }

SafetyInit ==
    /\ \E r \in SfRadii, h \in SfHeights, pt \in ProfileTypes, w \in SfWaves :
          lg_params = [LampShadeParams EXCEPT
                          !.base_radius = r[1], !.top_radius = r[2],
                          !.total_height = h, !.layer_height = <<3, 10>>,
                          !.num_points = 16, !.profile_type = pt,
                          !.wave_enabled = w[1], !.wave_amplitude = w[2]]
    /\ lg_pc = "validate"
    /\ lg_z = NoFloat
    /\ lg_layers = <<>>
    /\ CallIdle /\ DrvIdle /\ SpIdle /\ WgIdle

\* params.validate(): layers are generated only when it returns
SafetyValidate ==
    /\ lg_pc = "validate"
    /\ lg_pc' = IF validate(LgFixed(lg_params)) = Returned THEN "start" ELSE "rejected"
    /\ UNCHANGED <<lg_params, lg_z, lg_layers>>

SafetyNext ==
    \/ SafetyValidate /\ UNCHANGED <<callVars, drvVars, spVars, wgVars>>
    \/ LayersStart /\ UNCHANGED <<callVars, drvVars, spVars, wgVars>>
    \/ LayersIterate /\ UNCHANGED <<callVars, drvVars, spVars, wgVars>>
    \/ LayersReturn /\ UNCHANGED <<callVars, drvVars, spVars, wgVars>>

SpecSafety == SafetyInit /\ [][SafetyNext]_vars

OnBed(pt) ==
    /\ 0 <= pt[1] /\ pt[1] <= BED_SIZE[1]
    /\ 0 <= pt[2] /\ pt[2] <= BED_SIZE[2]

\* C27: when validate() has returned normally, every point of every layer
\* generated from those parameters lies inside the bed rectangle
\* [0, BED_SIZE[0]] x [0, BED_SIZE[1]] and no layer is above MAX_Z, for every
\* profile type, with the wave enabled or not.
C27_LayersInsidePrinter ==
    \A i \in 1..Len(lg_layers) :
        /\ FloatToCenti(lg_layers[i].z) <= MAX_Z
        /\ \A k \in 1..Len(lg_layers[i].perimeter_xy) : OnBed(lg_layers[i].perimeter_xy[k])

(***************************************************************************)
(* lec7/utility/helpers_geom.py: segments_to_serpentine.  A segment is     *)
(* <<a, b>> with points <<x, y>> in 1/100 mm, a row a sequence of          *)
(* segments, rows a sequence of rows.                                      *)
(***************************************************************************)
\* sorted(row, key=min(s[0].x, s[1].x)); the sort is stable
RowSorted(row) ==
    SortSeq(row, LAMBDA s, t : Min(s[1][1], s[2][1]) < Min(t[1][1], t[2][1]))

Reversed(seq) == [k \in 1..Len(seq) |-> seq[Len(seq) + 1 - k]]

\* lines 75-82: the points of one row, left to right for an even row index
\* (counted from 0), right to left for an odd one
RowPoints(row, row_idx) ==
    LET ordered == IF row_idx % 2 = 0 THEN RowSorted(row) ELSE Reversed(RowSorted(row))
        Ends(s) == IF row_idx % 2 = 0
                   THEN (IF s[1][1] <= s[2][1] THEN <<s[1], s[2]>> ELSE <<s[2], s[1]>>)
                   ELSE (IF s[1][1] >= s[2][1] THEN <<s[1], s[2]>> ELSE <<s[2], s[1]>>)
        Pts[k \in 0..Len(ordered)] ==
            IF k = 0 THEN <<>> ELSE Pts[k - 1] \o Ends(ordered[k])
    IN  Pts[Len(ordered)]

\* row_idx is the position in rows, empty rows included; the first point of a
\* row is dropped when it repeats the last point written; np.vstack of an
\* empty list raises ValueError
segments_to_serpentine(rows) ==
    LET pts[k \in 0..Len(rows)] ==
            IF k = 0 THEN <<>>
            ELSE IF rows[k] = <<>> THEN pts[k - 1]
            ELSE LET row_pts == RowPoints(rows[k], k - 1)
                     sofar   == pts[k - 1]
                 IN  IF sofar = <<>> THEN row_pts
                     ELSE IF sofar[Len(sofar)] # row_pts[1] THEN sofar \o row_pts
                     ELSE sofar \o Tail(row_pts)
    IN  IF pts[Len(rows)] = <<>>
        THEN Raise("ValueError", <<"need at least one array to concatenate">>)
        ELSE [status |-> "returned", value |-> pts[Len(rows)]]

\* ---- calls of segments_to_serpentine ----
MaxRows == 3

\* the scan heights of the rows
SgHeights == {100 * Mm, 106 * Mm}

\* the rows at height y: empty, one segment, one segment given right to left,
\* two segments given out of order, and one long segment
SgRowsAt(y) ==
    { <<>>,
      << <<<<70 * Mm, y>>, <<90 * Mm, y>>>> >>,
      << <<<<90 * Mm, y>>, <<70 * Mm, y>>>> >>,
      << <<<<110 * Mm, y>>, <<130 * Mm, y>>>>, <<<<70 * Mm, y>>, <<90 * Mm, y>>>> >>,
      << <<<<70 * Mm, y>>, <<130 * Mm, y>>>> >> }

SgRows == UNION {SgRowsAt(y) : y \in SgHeights}

SgInputs == UNION {[1..n -> SgRows] : n \in 0..MaxRows}

SerpentineInit ==
    /\ \E rows \in SgInputs : call = [fn |-> "segments_to_serpentine", rows |-> rows]
    /\ ret = NoRet
    /\ LgIdle /\ DrvIdle /\ SpIdle /\ WgIdle

SerpentineCall ==
    /\ call.fn = "segments_to_serpentine"
    /\ ret = NoRet
    /\ ret' = segments_to_serpentine(call.rows)
    /\ UNCHANGED call

SerpentineNext == SerpentineCall /\ UNCHANGED <<lgVars, drvVars, spVars, wgVars>>

SpecSerpentine == SerpentineInit /\ [][SerpentineNext]_vars

SerpentineDone == call.fn = "segments_to_serpentine" /\ ret # NoRet

\* the points of a row traversed left to right (dir = 0) or right to left
Traversal(row, dir) == RowPoints(row, dir)

\* the rows in order, each non-empty row traversed against the direction of
\* the non-empty row before it, the first one in direction `first`; a point
\* that repeats the last one at a row junction is written once
Alternating(rows, first) ==
    LET NonEmptyBefore(k) == Cardinality({j \in 1..(k - 1) : rows[j] # <<>>})
        path[k \in 0..Len(rows)] ==
            IF k = 0 THEN <<>>
            ELSE IF rows[k] = <<>> THEN path[k - 1]
            ELSE LET row_pts == Traversal(rows[k], (first + NonEmptyBefore(k)) % 2)
                     sofar   == path[k - 1]
                 IN  IF sofar = <<>> THEN row_pts
                     ELSE IF sofar[Len(sofar)] # row_pts[1] THEN sofar \o row_pts
                     ELSE sofar \o Tail(row_pts)
    IN  path[Len(rows)]

\* C29: segments_to_serpentine returns a path for every input, also when all
\* rows are empty; the path visits the rows in order, any two consecutive
\* non-empty rows in opposite x directions, also across empty rows, and does
\* not repeat a point at a row junction.
C29_SerpentineAlternates ==
    SerpentineDone =>
        /\ ret.status = "returned"
        /\ ret.value \in {Alternating(call.rows, 0), Alternating(call.rows, 1)}

(***************************************************************************)
(* lec7/utility/helpers_geom.py: build_serpentine_infill, and              *)
(* lec6/scanline_evenodd_student.py: sweep_scanlines.  Coordinates and the *)
(* spacing are in 1/100 mm, offset_scale in percent.  While the call runs, *)
(* ret holds its frame: the offset polygon, y, scan_ys and the rows.       *)
(***************************************************************************)
\* the mean of the vertices
poly_centroid(p) ==
    LET SumAt[k \in 0..Len(p)] ==
            IF k = 0 THEN <<0, 0>>
            ELSE <<SumAt[k - 1][1] + p[k][1], SumAt[k - 1][2] + p[k][2]>>
    IN  <<DivRound(SumAt[Len(p)][1], Len(p)), DivRound(SumAt[Len(p)][2], Len(p))>>

\* c + scale * (p - c) on the polygon without its closing vertex, closed again
scale_polygon(poly_xy, scale) ==
    LET closed == ensure_closed(poly_xy, 1)
        p      == SubSeq(closed.value, 1, Len(closed.value) - 1)
        c      == poly_centroid(p)
        q      == [k \in 1..Len(p) |->
                      <<c[1] + DivRound(scale * (p[k][1] - c[1]), 100),
                        c[2] + DivRound(scale * (p[k][2] - c[2]), 100)>>]
    IN  IF closed.status = "raised" THEN closed ELSE ensure_closed(q, 1)

\* <<xmin, xmax, ymin, ymax>>
bbox_xy(poly_xy) ==
    LET xs == {poly_xy[k][1] : k \in 1..Len(poly_xy)}
        ys == {poly_xy[k][2] : k \in 1..Len(poly_xy)}
    IN  << CHOOSE v \in xs : \A w \in xs : v <= w, CHOOSE v \in xs : \A w \in xs : v >= w,
           CHOOSE v \in ys : \A w \in ys : v <= w, CHOOSE v \in ys : \A w \in ys : v >= w >>

\* the rows a scan loop is followed for; a loop still running after that many
\* is left where it stands
MaxScans == 14

\* spacing: 6 mm (both main functions), 10 mm, 200 mm, 0 and -6 mm
SwSpacings == {600, 1000, 20000, 0, -600}

SweepInit ==
    /\ \E fn \in {"build_serpentine_infill", "sweep_scanlines"},
          poly \in {ScSquare, ScConcave}, spacing \in SwSpacings, scale \in {96, 100} :
          call = [fn |-> fn, perimeter_xy |-> poly, spacing |-> spacing,
                  offset_scale |-> scale, min_seg_len |-> 300]
    /\ ret = NoRet
    /\ LgIdle /\ DrvIdle /\ SpIdle /\ WgIdle

SweepCalled == call.fn \in {"build_serpentine_infill", "sweep_scanlines"}

\* lines 107-113 (lec6: 48-52): the offset polygon, its bounding box, the
\* first scan height
SweepStart ==
    /\ SweepCalled
    /\ ret = NoRet
    /\ LET offset == scale_polygon(call.perimeter_xy, call.offset_scale)
       IN  ret' = IF offset.status = "raised" THEN offset
                  ELSE [status |-> "running", offset |-> offset.value,
                        ymin |-> bbox_xy(offset.value)[3], ymax |-> bbox_xy(offset.value)[4],
                        y |-> bbox_xy(offset.value)[3] + call.spacing \div 2,
                        scan_ys |-> <<>>, rows |-> <<>>]
    /\ UNCHANGED call

\* y <= ymax - 0.25 * spacing
SweepGuard == ret.y <= ret.ymax - call.spacing \div 4

\* lines 114-118 (lec6: 53-62): one pass of the while loop; build_serpentine_
\* infill appends the row, sweep_scanlines extends one flat list
SweepIterate ==
    /\ SweepCalled
    /\ ret.status = "running"
    /\ SweepGuard
    /\ Len(ret.scan_ys) < MaxScans
    /\ LET xs   == scanline_x_intersections(ret.offset, ret.y, 1)
           segs == even_odd_segments(xs.value, ret.y, call.min_seg_len)
       IN  ret' = [ret EXCEPT !.rows = IF call.fn = "build_serpentine_infill"
                                       THEN Append(ret.rows, segs) ELSE ret.rows \o segs,
                              !.scan_ys = Append(ret.scan_ys, ret.y),
                              !.y = ret.y + call.spacing]
    /\ UNCHANGED call

\* line 120 (lec6: 64): the loop has ended
SweepReturn ==
    /\ SweepCalled
    /\ ret.status = "running"
    /\ ~SweepGuard
    /\ LET path == segments_to_serpentine(ret.rows)
       IN  ret' = IF call.fn = "sweep_scanlines"
                  THEN [status |-> "returned",
                        value |-> <<ret.offset, ret.scan_ys, ret.rows>>,
                        ymin |-> ret.ymin, ymax |-> ret.ymax]
                  ELSE IF path.status = "raised" THEN path
                  ELSE [status |-> "returned",
                        value |-> <<ret.offset, ret.scan_ys, path.value>>,
                        ymin |-> ret.ymin, ymax |-> ret.ymax]
    /\ UNCHANGED call

SweepNext ==
    \/ SweepStart /\ UNCHANGED <<lgVars, drvVars, spVars, wgVars>>
    \/ SweepIterate /\ UNCHANGED <<lgVars, drvVars, spVars, wgVars>>
    \/ SweepReturn /\ UNCHANGED <<lgVars, drvVars, spVars, wgVars>>

SpecSweep == SweepInit /\ [][SweepNext]_vars

\* the scan heights recorded so far
ScanYs == IF ret.status = "running" THEN ret.scan_ys ELSE ret.value[2]

\* C28: the scan loops of build_serpentine_infill and sweep_scanlines end for
\* every polygon and every spacing (a loop that is still running can take
\* its next pass within the rows followed), and the scan heights recorded
\* are strictly increasing, differ by exactly the spacing from one to the
\* next, and lie in [ymin + 0.5 * spacing, ymax - 0.25 * spacing] of the
\* offset polygon's bounding box.
C28_ScanLoopEnds ==
    (SweepCalled /\ ret.status \in {"running", "returned"}) =>
        /\ \A k \in 2..Len(ScanYs) :
              /\ ScanYs[k - 1] < ScanYs[k]
              /\ ScanYs[k] - ScanYs[k - 1] = call.spacing
        /\ \A k \in 1..Len(ScanYs) :
              /\ ret.ymin + call.spacing \div 2 <= ScanYs[k]
              /\ ScanYs[k] <= ret.ymax - call.spacing \div 4
        /\ (ret.status = "running" => (~SweepGuard \/ Len(ret.scan_ys) < MaxScans))

(***************************************************************************)
(* ensure_closed on its own: closure, length, idempotence and the errors   *)
(***************************************************************************)
MaxVerts == 4

\* vertices on the 1/100 mm grid; the first two are 0.01 mm apart
EcPoints == {<<0, 0>>, <<1, 0>>, <<100, 0>>, <<0, 100>>}

\* arrays that are not (N, 2): three columns, and one column
EcNotN2 == { <<<<0, 0, 0>>, <<100, 0, 0>>, <<0, 100, 0>>>>,
             <<<<0>>, <<100>>, <<50>>>> }

EcInputs ==
    UNION {[1..n -> EcPoints] : n \in 0..MaxVerts} \cup EcNotN2

ClosedInit ==
    /\ \E poly \in EcInputs, eps \in ScEps :
          call = [fn |-> "ensure_closed", poly_xy |-> poly, eps |-> eps]
    /\ ret = NoRet
    /\ LgIdle /\ DrvIdle /\ SpIdle /\ WgIdle

EnsureClosedCall ==
    /\ call.fn = "ensure_closed"
    /\ ret = NoRet
    /\ ret' = ensure_closed(call.poly_xy, call.eps)
    /\ UNCHANGED call

ClosedNext == EnsureClosedCall /\ UNCHANGED <<lgVars, drvVars, spVars, wgVars>>

SpecClosed == ClosedInit /\ [][ClosedNext]_vars

ClosedDone == call.fn = "ensure_closed" /\ ret # NoRet

\* what every call of ensure_closed does besides closing: ValueError exactly
\* for an array that is not (N, 2) or has fewer than three vertices, otherwise
\* the argument's rows followed by at most one more, and the same again when
\* applied to its own result
EcCommon ==
    /\ (ret.status = "raised") <=> (NotN2(call.poly_xy) \/ Len(call.poly_xy) < 3)
    /\ ret.status = "raised" => ret.kind = "ValueError"
    /\ ret.status = "returned" =>
          /\ Len(ret.value) \in {Len(call.poly_xy), Len(call.poly_xy) + 1}
          /\ SubSeq(ret.value, 1, Len(call.poly_xy)) = call.poly_xy
          /\ ensure_closed(ret.value, call.eps) = ret

\* C30 as stated: ensure_closed returns a polygon whose last vertex equals its
\* first vertex, adds at most one vertex, is idempotent, and raises ValueError
\* for fewer than 3 vertices or an array that is not (N, 2).
C30_ClosedExactly ==
    ClosedDone =>
        /\ EcCommon
        /\ ret.status = "returned" => ret.value[Len(ret.value)] = ret.value[1]

\* C30, amended: the last vertex of the result is within eps of its first
\* vertex, and equal to it whenever a vertex was added; a vertex is added only
\* when the argument's ends are further than eps apart; the rest as stated.
C30_ClosedWithinEps ==
    ClosedDone =>
        /\ EcCommon
        /\ ret.status = "returned" =>
              /\ NormWithin(ret.value[1], ret.value[Len(ret.value)], call.eps)
              /\ Len(ret.value) = Len(call.poly_xy) + 1 =>
                    /\ ret.value[Len(ret.value)] = ret.value[1]
                    /\ ~NormWithin(call.poly_xy[1], call.poly_xy[Len(call.poly_xy)],
                                   call.eps)
              /\ Len(ret.value) = Len(call.poly_xy) =>
                    NormWithin(call.poly_xy[1], call.poly_xy[Len(call.poly_xy)],
                               call.eps)

\* an open triangle came back with its first vertex appended
C30_Witness ==
    /\ ClosedDone
    /\ call.poly_xy = <<<<0, 0>>, <<100, 0>>, <<0, 100>>>>
    /\ ret.status = "returned"
    /\ ret.value = <<<<0, 0>>, <<100, 0>>, <<0, 100>>, <<0, 0>>>>

====
